---- MODULE Spec2Model ----
(***************************************************************************)
(* Verification model of l-adic/ttc.                                       *)
(*                                                                         *)
(* Part I  - the strict Top-Trading-Cycles solver (ttc/src/strict.rs):     *)
(*           Preferences, PreferenceGraph (a petgraph DiGraph), find_cycle *)
(*           and solve_preferences, one action per main-loop iteration.    *)
(*           Specifications: SolverSpec, and CycleSpec for the equality of *)
(*           cycles.                                                       *)
(* Part II - the proof job orchestrator (monitor server, prover server,    *)
(*           Postgres schema).  Specifications: Spec, LiveSpec for the job *)
(*           lifecycle under fair scheduling, and FrameSpec for a monitor  *)
(*           that serves several contracts.                                *)
(* Part III - the zkVM guest (methods/guest/src/main.rs).                  *)
(*           Specification: GuestSpec.                                     *)
(* Part IV - the notifier (monitor/server/src/pg_notify.rs).               *)
(*           Specification: NotifierSpec.                                  *)
(***************************************************************************)
EXTENDS Integers, Sequences, FiniteSets, TLC

VARIABLES
    \* ---- Part I: solver ----
    input,       \* the HashMap<V, Vec<V>> handed to Preferences::new
    keyOrder,    \* iteration order of prefs.keys() in PreferenceGraph::new
    spc,         \* position of the solver run: "start" | "loop" | "done" | "err"
    serr,        \* error of the run: "none" | "InvalidChoice" | "EmptyGraph" | ...
    graph,       \* PreferenceGraph.graph : [nodes : Seq(V), edges : Seq(<<src, dst>>)]
    prefs,       \* PreferenceGraph.prefs.prefs : remaining key -> reduced list
    res,         \* the Vec<Cycle<V>> built by solve_preferences
    iters,       \* number of completed iterations of the main loop
    allocation,  \* Allocation::from(res).allocation once the run is done
    cmp,         \* a comparison of Cycle values with ==: the operands, the results
    \* ---- Part II: orchestrator ----
    phase,       \* escrow contract: currentPhase() of every address
    tradeBlock,  \* escrow contract: block of the PhaseChanged(2) log, 0 before
    jobs,        \* table jobs : set of rows
    proofs,      \* table proofs : set of rows
    notified,    \* per address, the number of pg_notify('job_channel', address)
    notifQueue,  \* notifications published and not yet received by the listener
    events,      \* EventsManager.events : address -> watcher handle (0 = absent)
    lock,        \* the tokio Mutex around events: "free" or its holder
    calls,       \* watch_contract RPC handlers in progress
    watchers,    \* tasks spawned by monitor_trade_phase
    provers,     \* prove_impl runs of the prover server
    listener,    \* the task spawned by listen_for_job_updates
    \* ---- Part III: guest ----
    returns,     \* getAllTokenPreferences() of the escrow at the committed block
    preferences, \* the Vec<TokenPreferences> decoded from the third env::read
    gpc,         \* position of the guest: "idle", "start", "solving", "committed", "panicked"
    journal,     \* the Journal committed by the guest, None before
    \* ---- Part IV: notifier ----
    published,   \* payloads sent with pg_notify on the channel, in order
    pgstream,    \* items the PgListener stream holds for the forwarding task
    mpsc,        \* the unbounded channel between the task and the subscriber
    received,    \* values the subscriber got from recv(), in order
    recvErrors   \* number of Err items the PgListener stream has yielded

solverVars == <<input, keyOrder, spc, serr, graph, prefs, res, iters, allocation,
                cmp>>

orchVars == <<phase, tradeBlock, jobs, proofs, notified, notifQueue, events, lock,
              calls, watchers, provers, listener>>

guestVars == <<returns, preferences, gpc, journal>>

notifierVars == <<published, pgstream, mpsc, received, recvErrors>>

vars == <<solverVars, orchVars, guestVars, notifierVars>>

----------------------------------------------------------------------------
(* Bounds of the solver inputs *)

MaxParticipants == 3
MaxPrefLen == 3

----------------------------------------------------------------------------
(* Generic helpers on sequences *)

Range(s) == {s[i] : i \in DOMAIN s}

IsDistinctSeq(s) == \A i, j \in DOMAIN s : i # j => s[i] # s[j]

Perms(S) == {p \in [1..Cardinality(S) -> S] : Range(p) = S}

\* Vec::contains
Contains(s, x) == \E i \in DOMAIN s : s[i] = x

\* Iterator::position : 1-based index of the first occurrence, 0 for None
Position(s, x) == IF Contains(s, x) THEN CHOOSE i \in DOMAIN s : s[i] = x /\ \A j \in 1..(i-1) : s[j] # x ELSE 0

\* Vec::retain(|x| !chosen.contains(x))
RECURSIVE RetainNotIn(_, _)
RetainNotIn(s, chosen) ==
    IF s = <<>> THEN <<>>
    ELSE IF Contains(chosen, Head(s)) THEN RetainNotIn(Tail(s), chosen)
         ELSE <<Head(s)>> \o RetainNotIn(Tail(s), chosen)

Reverse(s) == [i \in 1..Len(s) |-> s[Len(s) + 1 - i]]

----------------------------------------------------------------------------
(* Preferences *)

\* mutant: only the head of each list is validated
PreferencesNewOk_HeadOnly(m) == \A k \in DOMAIN m : m[k] = <<>> \/ m[k][1] \in DOMAIN m

\* Preferences::new : Err(InvalidChoice) when some list names a non-key
PreferencesNewOk(m) == \A k \in DOMAIN m : \A i \in DOMAIN m[k] : m[k][i] \in DOMAIN m

\* mutant: the last entry of the list is taken instead of the first
preferred_item_Last(p, v) ==
    IF v \in DOMAIN p /\ p[v] # <<>> THEN p[v][Len(p[v])] ELSE v

\* mutant: the participant's own name is passed over when another entry follows
preferred_item_SkipSelf(p, v) ==
    IF v \in DOMAIN p /\ p[v] # <<>>
    THEN IF \E i \in DOMAIN p[v] : p[v][i] # v
         THEN p[v][CHOOSE i \in DOMAIN p[v] :
                      p[v][i] # v /\ \A j \in 1..(i - 1) : p[v][j] = v]
         ELSE v
    ELSE v

\* Preferences::preferred_item : first entry of v's list, v itself when the
\* list is empty or v has no entry
preferred_item(p, v) ==
    IF v \in DOMAIN p /\ p[v] # <<>> THEN p[v][1] ELSE v

\* mutant: the chosen keys are dropped, the remaining lists are left as they are
remove_prefs_KeysOnly(p, chosen) ==
    [k \in (DOMAIN p) \ Range(chosen) |-> p[k]]

\* Preferences::remove_prefs : drop the chosen keys, strike them from every
\* remaining list
remove_prefs(p, chosen) ==
    [k \in (DOMAIN p) \ Range(chosen) |-> RetainNotIn(p[k], chosen)]

\* Preferences::rank : position of value in participant's list, usize::MAX
\* (modelled as a number above every index) when absent
RankAbsent == 1000000
rank(p, participant, value) ==
    IF Contains(p[participant], value) THEN Position(p[participant], value) ELSE RankAbsent

----------------------------------------------------------------------------
(* petgraph::graph::DiGraph<V, ()>                                           *)
(* nodes[i] is the weight of NodeIndex i-1; edges lists the live edges in   *)
(* the order they were added.  An adjacency list of petgraph is a linked    *)
(* list with the most recently added edge at its head, so neighbours are    *)
(* enumerated newest edge first.                                            *)

\* Graph::new()
GraphNew == [nodes |-> <<>>, edges |-> <<>>]

node_count(g) == Len(g.nodes)

\* graph.node_indices().find(|&index| graph[index] == w) : 0 stands for None
IndexOf(g, w) == Position(g.nodes, w)

add_edge(g, a, b) == [g EXCEPT !.edges = Append(@, <<a, b>>)]

\* graph.neighbors(u) : targets of u's outgoing edges, newest first
OutNeighbors(g, u) ==
    LET IsOut(e) == e[1] = u
        out == SelectSeq(g.edges, IsOut)
    IN  Reverse([i \in DOMAIN out |-> out[i][2]])

\* graph.neighbors_directed(ix, Direction::Incoming) : sources of the edges
\* into ix, newest first
InNeighbors(g, ix) ==
    LET IsIn(e) == e[2] = ix
        inc == SelectSeq(g.edges, IsIn)
    IN  Reverse([i \in DOMAIN inc |-> inc[i][1]])

\* mutant: the last node is popped instead of node ix
remove_node_PopLast(g, ix) ==
    LET last == Len(g.nodes)
        Keeps(e) == e[1] # last /\ e[2] # last
    IN  [nodes |-> SubSeq(g.nodes, 1, last - 1), edges |-> SelectSeq(g.edges, Keeps)]

\* Graph::remove_node : every edge touching ix is removed, the last node is
\* swapped into position ix and its edges are re-pointed to ix
remove_node(g, ix) ==
    LET last == Len(g.nodes)
        Keeps(e) == e[1] # ix /\ e[2] # ix
        kept == SelectSeq(g.edges, Keeps)
        Re(i) == IF i = last THEN ix ELSE i
    IN  [nodes |-> [i \in 1..(last - 1) |-> IF i = ix THEN g.nodes[last] ELSE g.nodes[i]],
         edges |-> [i \in DOMAIN kept |-> <<Re(kept[i][1]), Re(kept[i][2])>>]]

\* PreferenceGraph::setup : one node per entry of v in order, then one edge
\* per pair of e whose two ends are both nodes
RECURSIVE AddEdges(_, _)
AddEdges(g, e) ==
    IF e = <<>> THEN g
    ELSE LET n1 == IndexOf(g, Head(e)[1])
             n2 == IndexOf(g, Head(e)[2])
         IN  AddEdges(IF n1 # 0 /\ n2 # 0 THEN add_edge(g, n1, n2) ELSE g, Tail(e))

setup(v, e) == AddEdges([nodes |-> v, edges |-> <<>>], e)

\* mutant: the first edge of every key goes to the key itself instead of its
\* preferred item
PreferenceGraphNew_SelfLoops(order, p) ==
    setup(order, [i \in DOMAIN order |-> <<order[i], order[i]>>])

\* PreferenceGraph::new, after the emptiness test: every key points at its
\* preferred item
PreferenceGraphNew(order, p) ==
    setup(order, [i \in DOMAIN order |-> <<order[i], preferred_item(p, order[i])>>])

----------------------------------------------------------------------------
(* petgraph::visit::depth_first_search with the visitor of find_cycle       *)
(* st.disc / st.fin are the discovered and finished maps, st.pred the       *)
(* predecessors vector (0 = NodeIndex::end()), st.brk the Control::Break    *)
(* value (0 = none yet).                                                    *)

RECURSIVE DfsVisitor(_, _, _)
RECURSIVE DfsNeighbors(_, _, _, _, _)

DfsVisitor(g, u, st) ==
    IF u \in st.disc THEN st
    ELSE LET st1 == [st EXCEPT !.disc = @ \cup {u}]
             st2 == DfsNeighbors(g, u, OutNeighbors(g, u), 1, st1)
         IN  IF st2.brk # 0 THEN st2 ELSE [st2 EXCEPT !.fin = @ \cup {u}]

DfsNeighbors(g, u, nb, i, st) ==
    IF i > Len(nb) \/ st.brk # 0 THEN st
    ELSE LET v == nb[i] IN
         IF v \notin st.disc
           THEN \* DfsEvent::TreeEdge(u, v)
                DfsNeighbors(g, u, nb, i + 1,
                             DfsVisitor(g, v, [st EXCEPT !.pred[v] = u]))
         ELSE IF v \notin st.fin
           THEN \* DfsEvent::BackEdge(u, v) => Control::Break(u)
                [st EXCEPT !.pred[v] = u, !.brk = u]
         ELSE DfsNeighbors(g, u, nb, i + 1, st)

\* start = graph.node_indices().next() : the node of index 0
depth_first_search(g) ==
    DfsVisitor(g, 1, [disc |-> {}, fin |-> {},
                      pred |-> [i \in 1..node_count(g) |-> 0], brk |-> 0])

\* the while loop of find_cycle that walks the predecessors back to cycle_end
RECURSIVE WalkPredecessors(_, _, _, _)
WalkPredecessors(g, pred, current_node, cycle_end) ==
    IF current_node = cycle_end THEN <<>>
    ELSE <<g.nodes[current_node]>> \o WalkPredecessors(g, pred, pred[current_node], cycle_end)

\* mutant: the whole DFS path from the start node is returned, not only the
\* part of it that lies on the cycle
RECURSIVE PathValues(_, _, _, _)
PathValues(g, cur, cycle_end, fuel) ==
    IF cur = cycle_end \/ fuel = 0 \/ OutNeighbors(g, cur) = <<>> THEN <<g.nodes[cur]>>
    ELSE <<g.nodes[cur]>> \o PathValues(g, OutNeighbors(g, cur)[1], cycle_end, fuel - 1)

find_cycle_WholePath(g) ==
    LET st == depth_first_search(g)
    IN  IF node_count(g) = 0 \/ st.brk = 0
          THEN [ok |-> FALSE, values |-> <<>>]
          ELSE [ok |-> TRUE, values |-> PathValues(g, 1, st.brk, node_count(g))]

\* PreferenceGraph::find_cycle : [ok |-> FALSE] is Err(AlwaysCycles)
find_cycle(g) ==
    LET st == depth_first_search(g)
        cycle_end == st.brk
    IN  IF node_count(g) = 0 \/ cycle_end = 0
          THEN [ok |-> FALSE, values |-> <<>>]
          ELSE [ok |-> TRUE,
                values |-> Reverse(<<g.nodes[cycle_end]>> \o
                                   WalkPredecessors(g, st.pred, st.pred[cycle_end], cycle_end))]

----------------------------------------------------------------------------
(* solve_preferences and Allocation::from *)

\* mutant: the vertex is removed without rewiring its in-neighbours
RECURSIVE RewireCycle_NoRewire(_, _, _)
RewireCycle_NoRewire(g, p, values) ==
    IF values = <<>> THEN [ok |-> TRUE, graph |-> g]
    ELSE LET ix == IndexOf(g, Head(values)) IN
         IF ix = 0 THEN [ok |-> FALSE, graph |-> g]
         ELSE RewireCycle_NoRewire(remove_node(g, ix), p, Tail(values))

\* the body of `for v in &cycle.values` : look the vertex up, give every
\* in-neighbour an edge to its preferred item under the reduced preferences,
\* remove the vertex.  ok = FALSE is a panic of one of the two unwrap()s.
RECURSIVE RewireCycle(_, _, _)
RewireCycle(g, p, values) ==
    IF values = <<>> THEN [ok |-> TRUE, graph |-> g]
    ELSE LET ix == IndexOf(g, Head(values)) IN
         IF ix = 0 THEN [ok |-> FALSE, graph |-> g]
         ELSE LET ns == InNeighbors(g, ix)
                  preferred_ix == [i \in DOMAIN ns |->
                                     IndexOf(g, preferred_item(p, g.nodes[ns[i]]))]
                  edges_to_add == [i \in DOMAIN ns |-> <<ns[i], preferred_ix[i]>>]
              IN  IF \E i \in DOMAIN ns : preferred_ix[i] = 0
                    THEN [ok |-> FALSE, graph |-> g]
                    ELSE RewireCycle(remove_node([g EXCEPT !.edges = @ \o edges_to_add], ix),
                                     p, Tail(values))

\* HashMap::insert
MapInsert(m, k, v) == [x \in (DOMAIN m) \cup {k} |-> IF x = k THEN v ELSE m[x]]

\* mutant: every member is paired with its predecessor in the cycle
RECURSIVE InsertCycle_Backward(_, _, _)
InsertCycle_Backward(m, values, i) ==
    IF i > Len(values) THEN m
    ELSE InsertCycle_Backward(MapInsert(m, values[i],
                                        values[((i + Len(values) - 2) % Len(values)) + 1]),
                              values, i + 1)

\* mutant: every member of the cycle is paired with the cycle's first vertex
RECURSIVE InsertCycle_ToHead(_, _, _)
InsertCycle_ToHead(m, values, i) ==
    IF i > Len(values) THEN m
    ELSE InsertCycle_ToHead(MapInsert(m, values[i], values[1]), values, i + 1)

\* one cycle of Allocation::from : values zipped with values.cycle().skip(1)
RECURSIVE InsertCycle(_, _, _)
InsertCycle(m, values, i) ==
    IF i > Len(values) THEN m
    ELSE InsertCycle(MapInsert(m, values[i], values[(i % Len(values)) + 1]), values, i + 1)

\* impl From<Vec<Cycle<V>>> for Allocation<V>
RECURSIVE AllocationFrom(_)
AllocationFrom(cycles) ==
    IF cycles = <<>> THEN <<>>
    ELSE InsertCycle(AllocationFrom(SubSeq(cycles, 1, Len(cycles) - 1)),
                     cycles[Len(cycles)], 1)

\* the body of the while loop of solve_preferences: find a cycle, strike it
\* from the preferences, rewire and remove its vertices
LoopBody(g, p) ==
    LET cycle == find_cycle(g)
        p1 == remove_prefs(p, cycle.values)
        rw == RewireCycle(g, p1, cycle.values)
    IN  IF ~cycle.ok
          THEN [status |-> "AlwaysCycles", graph |-> g, prefs |-> p, cycle |-> <<>>]
        ELSE IF ~rw.ok
          THEN [status |-> "Panic", graph |-> g, prefs |-> p1, cycle |-> cycle.values]
        ELSE [status |-> "ok", graph |-> rw.graph, prefs |-> p1, cycle |-> cycle.values]

\* PreferenceGraph::solve_preferences run to its end from graph g and
\* preferences p
RECURSIVE solve_preferences(_, _, _)
solve_preferences(g, p, acc) ==
    IF node_count(g) = 0 THEN [status |-> "ok", cycles |-> acc]
    ELSE LET b == LoopBody(g, p)
         IN  IF b.status # "ok" THEN [status |-> b.status, cycles |-> acc]
             ELSE solve_preferences(b.graph, b.prefs, Append(acc, b.cycle))

\* mutant: cycles compared as sets of values
CycleEq_Unordered(a, b) == Len(a) = Len(b) /\ Range(a) = Range(b)

\* impl PartialEq for Cycle : equal lengths and some rotation of a equals b
CycleEq(a, b) ==
    /\ Len(a) = Len(b)
    /\ \E i \in 0..(Len(a) - 1) :
          \A j \in 1..Len(a) : a[((i + j - 1) % Len(a)) + 1] = b[j]

\* no comparison of cycles is being made
NoComparison ==
    [pc |-> "idle", a |-> <<>>, b |-> <<>>, c |-> <<>>, ab |-> FALSE, ba |-> FALSE,
     bc |-> FALSE, ac |-> FALSE, aa |-> FALSE, arev |-> FALSE]

\* a == b, b == a, b == c, a == c, a == a and a == reversed(a) are evaluated
CompareCycles ==
    /\ cmp.pc = "start"
    /\ cmp' = [cmp EXCEPT !.pc = "done",
                          !.ab = CycleEq(cmp.a, cmp.b),
                          !.ba = CycleEq(cmp.b, cmp.a),
                          !.bc = CycleEq(cmp.b, cmp.c),
                          !.ac = CycleEq(cmp.a, cmp.c),
                          !.aa = CycleEq(cmp.a, cmp.a),
                          !.arev = CycleEq(cmp.a, Reverse(cmp.a))]
    /\ UNCHANGED <<input, keyOrder, spc, serr, graph, prefs, res, iters, allocation>>
    /\ UNCHANGED <<orchVars, guestVars, notifierVars>>

----------------------------------------------------------------------------
(* Inputs of the solver runs *)

Names == 1..MaxParticipants

RECURSIVE SeqsUpTo(_, _)
SeqsUpTo(S, n) ==
    IF n = 0 THEN {<<>>}
    ELSE LET shorter == SeqsUpTo(S, n - 1)
         IN  shorter \cup {Append(s, x) : s \in shorter, x \in S}

\* preference lists: distinct entries, at most MaxPrefLen of them
PrefLists == {s \in SeqsUpTo(Names, MaxPrefLen) : IsDistinctSeq(s)}

\* the example of basic_test (S1..S6 are 1..6)
PaperExample ==
    (1 :> <<3, 2, 4, 1>>) @@ (2 :> <<3, 5, 6>>) @@ (3 :> <<3, 1>>) @@
    (4 :> <<2, 5, 6, 4>>) @@ (5 :> <<1, 3, 2>>) @@ (6 :> <<2, 4, 5, 6>>)

\* every mapping from a set of names to preference lists (lists may name
\* non-keys: those are the inputs Preferences::new rejects), and the example
Inputs == (UNION {[K -> PrefLists] : K \in SUBSET Names}) \cup {PaperExample}

\* a valid preference mapping: every entry is a participant, entries distinct
ValidInput(m) ==
    \A k \in DOMAIN m : Range(m[k]) \subseteq DOMAIN m /\ IsDistinctSeq(m[k])

----------------------------------------------------------------------------
(* Part II: the proof job orchestrator                                      *)
(*                                                                          *)
(* The escrow contract, the Postgres store with its notification trigger,   *)
(* the prover server, the monitor's watch_contract handler, the events      *)
(* manager with its watcher tasks, and the notification listener.           *)

(* Bounds of the orchestrator *)
NumAddrs == 1           \* contract addresses
MaxBlock == 1           \* block heights at which a contract may enter Trade
MaxWatchCalls == 2      \* watch_contract requests served in one behaviour
MaxExternalProves == 1  \* prove / prove_async requests sent by outside callers
MaxProofs == 1          \* distinct (journal, seal) receipts of the prover
MaxTime == 1            \* readings of the wall clock

\* newPhase == 2 / phase != 2 / phase >= 2: the trading phase of the escrow
TradePhase == 2

Addrs == 1..NumAddrs
Phases == 0..4
Blocks == 1..MaxBlock
CallIds == 1..MaxWatchCalls
RunIds == 1..(MaxWatchCalls + MaxExternalProves)
ExternalRunIds == (MaxWatchCalls + 1)..(MaxWatchCalls + MaxExternalProves)
Receipts == 1..MaxProofs
Times == 1..MaxTime

\* Option<T>: None is the empty sequence, Some(x) the one-element sequence
None == <<>>

Some(x) == <<x>>

(* ---- the store: tables jobs and proofs, and the trigger on jobs ---- *)

\* enum JobStatus, under its sqlx snake_case names
JobStatus == {"created", "in_progress", "completed", "errored"}

\* Utc.timestamp_opt(log.block_timestamp, 0): the time of the block
BlockTimestamp(b) == <<"block_time", b>>

\* the Job the watcher builds on PhaseChanged(2)
NewJob(a, b) ==
    [address |-> a, block_number |-> b, block_timestamp |-> BlockTimestamp(b),
     status |-> "created", error |-> None, completed_at |-> None]

\* the db::Proof the prover server builds from a receipt
NewProof(a, r) == [address |-> a, proof |-> <<"journal", r>>, seal |-> <<"seal", r>>]

\* INSERT INTO jobs without the PRIMARY KEY of the address column
create_job_NoPrimaryKey(tbl, job) == [ok |-> TRUE, jobs |-> tbl \cup {job}]

\* INSERT INTO jobs: address is the PRIMARY KEY, a second row is a unique violation
create_job(tbl, job) ==
    IF \E r \in tbl : r.address = job.address
    THEN [ok |-> FALSE, jobs |-> tbl]
    ELSE [ok |-> TRUE, jobs |-> tbl \cup {job}]

\* SELECT ... FROM jobs WHERE address = $1, fetch_one: RowNotFound on no row
get_job_by_address(tbl, a) ==
    IF \E r \in tbl : r.address = a
    THEN [ok |-> TRUE, job |-> Some(CHOOSE r \in tbl : r.address = a)]
    ELSE [ok |-> FALSE, job |-> None]

\* a trigger function without the test of OLD.status
notify_job_status_change_AnyOld(old, new) == new.status \in {"completed", "errored"}

\* the trigger function: notify when the row becomes terminal
notify_job_status_change(old, new) ==
    /\ new.status \in {"completed", "errored"}
    /\ old.status \notin {"completed", "errored"}

\* the UPDATE on a jobs table that has no trigger
update_job_status_NoTrigger(tbl, a, new_status, error, completed_at) ==
    [ok |-> TRUE,
     jobs |-> {IF r.address = a
               THEN [r EXCEPT !.status = new_status, !.error = error,
                              !.completed_at = completed_at]
               ELSE r : r \in tbl},
     notifications |-> 0]

\* an UPDATE that sets the status column only
update_job_status_StatusOnly(tbl, a, new_status, error, completed_at) ==
    LET hit == {r \in tbl : r.address = a}
        upd(r) == [r EXCEPT !.status = new_status]
    IN  [ok |-> TRUE,
         jobs |-> (tbl \ hit) \cup {upd(r) : r \in hit},
         notifications |->
             Cardinality({r \in hit : notify_job_status_change(r, upd(r))})]

\* an UPDATE without the WHERE clause: every row of the table is overwritten
update_job_status_NoWhere(tbl, a, new_status, error, completed_at) ==
    LET upd(r) == [r EXCEPT !.status = new_status, !.error = error,
                            !.completed_at = completed_at]
    IN  [ok |-> TRUE,
         jobs |-> {upd(r) : r \in tbl},
         notifications |->
             Cardinality({r \in tbl : notify_job_status_change(r, upd(r))})]

\* UPDATE jobs SET status, error, completed_at WHERE address = $1: every
\* matching row is overwritten, whatever its status; execute() is Ok for any
\* number of rows affected, none included. The row trigger runs once for
\* each row updated.
update_job_status(tbl, a, new_status, error, completed_at) ==
    LET hit == {r \in tbl : r.address = a}
        upd(r) == [r EXCEPT !.status = new_status, !.error = error,
                            !.completed_at = completed_at]
    IN  [ok |-> TRUE,
         jobs |-> (tbl \ hit) \cup {upd(r) : r \in hit},
         notifications |->
             Cardinality({r \in hit : notify_job_status_change(r, upd(r))})]

\* INSERT INTO proofs: address is the PRIMARY KEY
create_proof(tbl, p) ==
    IF \E r \in tbl : r.address = p.address
    THEN [ok |-> FALSE, proofs |-> tbl]
    ELSE [ok |-> TRUE, proofs |-> tbl \cup {p}]

\* SELECT ... FROM proofs WHERE address = $1, fetch_optional
get_proof_opt_by_address(tbl, a) ==
    IF \E r \in tbl : r.address = a
    THEN Some(CHOOSE r \in tbl : r.address = a)
    ELSE None

\* pg_notify('job_channel', address), n times, in commit order
Publish(q, a, n) == q \o [i \in 1..n |-> a]

(* ---- the monitor's read-only RPCs ---- *)

\* get_proof: the proof row, or "Proof not found"
get_proof(a) ==
    LET p == get_proof_opt_by_address(proofs, a)
    IN  IF p = None THEN [ok |-> FALSE, error |-> "Proof not found"]
        ELSE [ok |-> TRUE, journal |-> p[1].proof, seal |-> p[1].seal]

\* get_proof_status: the status of the job row, or the database error
get_proof_status(a) ==
    LET j == get_job_by_address(jobs, a)
    IN  IF ~j.ok THEN [ok |-> FALSE, status |-> "RowNotFound"]
        ELSE [ok |-> TRUE, status |-> j.job[1].status]

(* ---- initial state of the orchestrator ---- *)

IdleCall == [pc |-> "idle", address |-> 0, from_block |-> 0, result |-> "none"]

NoWatcher == [pc |-> "none", address |-> 0, from_block |-> 0, cursor |-> 0,
              result |-> "none"]

NoRun == [pc |-> "none", address |-> 0, client |-> "none", receipt |-> 0,
          result |-> "none"]

OrchInit ==
    /\ phase = [a \in Addrs |-> 0]
    /\ tradeBlock = [a \in Addrs |-> 0]
    /\ jobs = {}
    /\ proofs = {}
    /\ notified = [a \in Addrs |-> 0]
    /\ notifQueue = <<>>
    /\ events = [a \in Addrs |-> 0]
    /\ lock = "free"
    /\ calls = [h \in CallIds |-> IdleCall]
    /\ watchers = [w \in CallIds |-> NoWatcher]
    /\ provers = [r \in RunIds |-> NoRun]
    /\ listener = [pc |-> "recv", address |-> 0, handle |-> 0]

(* ---- the escrow contract ---- *)

\* advancePhase(): the next phase; entering Trade records the block and
\* emits PhaseChanged(2) in it
AdvancePhase(a) ==
    /\ phase[a] + 1 \in Phases
    /\ phase' = [phase EXCEPT ![a] = @ + 1]
    /\ IF phase[a] + 1 = TradePhase
       THEN \E b \in Blocks : tradeBlock' = [tradeBlock EXCEPT ![a] = b]
       ELSE UNCHANGED tradeBlock
    /\ UNCHANGED <<jobs, proofs, notified, notifQueue, events, lock, calls,
                   watchers, provers, listener>>
    /\ UNCHANGED <<solverVars, guestVars, notifierVars>>

(* ---- the prover server ---- *)

\* a run of prove_impl starts: the backend is asked for a proof
StartRun(r, a, client) ==
    provers' = [provers EXCEPT ![r] =
        [pc |-> "proving", address |-> a, client |-> client, receipt |-> 0,
         result |-> "none"]]

\* rpc prove, sent by an outside caller: no phase check on the server
ExternalProve(r, a) ==
    /\ r \in ExternalRunIds
    /\ provers[r].pc = "none"
    /\ StartRun(r, a, "external")
    /\ UNCHANGED <<phase, tradeBlock, jobs, proofs, notified, notifQueue, events,
                   lock, calls, watchers, listener>>
    /\ UNCHANGED <<solverVars, guestVars, notifierVars>>

\* rpc prove_async: assert_in_trade_phase, then prove_impl in a spawned task
ExternalProveAsync(r, a) ==
    /\ r \in ExternalRunIds
    /\ provers[r].pc = "none"
    /\ IF phase[a] # TradePhase
       THEN provers' = [provers EXCEPT ![r] =
                [NoRun EXCEPT !.pc = "returned", !.address = a,
                              !.client = "spawned", !.result = "PhaseMismatch"]]
       ELSE StartRun(r, a, "spawned")
    /\ UNCHANGED <<phase, tradeBlock, jobs, proofs, notified, notifQueue, events,
                   lock, calls, watchers, listener>>
    /\ UNCHANGED <<solverVars, guestVars, notifierVars>>

\* prove_impl: self.app_env.prover.prove(address) returns a receipt or an error
ProverBackend(r) ==
    /\ provers[r].pc = "proving"
    /\ \/ \E rc \in Receipts :
            provers' = [provers EXCEPT ![r].pc = "create_proof", ![r].receipt = rc]
       \/ provers' = [provers EXCEPT ![r].pc = "set_errored"]
    /\ UNCHANGED <<phase, tradeBlock, jobs, proofs, notified, notifQueue, events,
                   lock, calls, watchers, listener>>
    /\ UNCHANGED <<solverVars, guestVars, notifierVars>>

\* prove_impl, Ok arm: db.create_proof(&db_proof).await?
ProverCreateProof(r) ==
    /\ provers[r].pc = "create_proof"
    /\ LET w == create_proof(proofs, NewProof(provers[r].address, provers[r].receipt))
       IN  /\ proofs' = w.proofs
           /\ provers' = IF w.ok
                THEN [provers EXCEPT ![r].pc = "set_completed"]
                ELSE [provers EXCEPT ![r].pc = "returned",
                                     ![r].result = "CreateProofFailed"]
    /\ UNCHANGED <<phase, tradeBlock, jobs, notified, notifQueue, events, lock,
                   calls, watchers, listener>>
    /\ UNCHANGED <<solverVars, guestVars, notifierVars>>

\* prove_impl, Ok arm: update_job_status(address, Completed, None, Some(now))
ProverSetCompleted(r) ==
    /\ provers[r].pc = "set_completed"
    /\ \E now \in Times :
        LET a == provers[r].address
            u == update_job_status(jobs, a, "completed", None, Some(now))
        IN  /\ jobs' = u.jobs
            /\ notified' = [notified EXCEPT ![a] = @ + u.notifications]
            /\ notifQueue' = Publish(notifQueue, a, u.notifications)
    /\ provers' = [provers EXCEPT ![r].pc = "returned",
          ![r].result = IF update_job_status(jobs, provers[r].address, "completed",
                                             None, None).ok
                        THEN "Ok" ELSE "UpdateFailed"]
    /\ UNCHANGED <<phase, tradeBlock, proofs, events, lock, calls, watchers,
                   listener>>
    /\ UNCHANGED <<solverVars, guestVars, notifierVars>>

\* prove_impl, Err arm: update_job_status(address, Errored, Some(err), Some(now))
ProverSetErrored(r) ==
    /\ provers[r].pc = "set_errored"
    /\ \E now \in Times :
        LET a == provers[r].address
            u == update_job_status(jobs, a, "errored", Some("prover error"),
                                   Some(now))
        IN  /\ jobs' = u.jobs
            /\ notified' = [notified EXCEPT ![a] = @ + u.notifications]
            /\ notifQueue' = Publish(notifQueue, a, u.notifications)
    /\ provers' = [provers EXCEPT ![r].pc = "returned",
          ![r].result = IF update_job_status(jobs, provers[r].address, "errored",
                                             None, None).ok
                        THEN "ProverError" ELSE "UpdateFailed"]
    /\ UNCHANGED <<phase, tradeBlock, proofs, events, lock, calls, watchers,
                   listener>>
    /\ UNCHANGED <<solverVars, guestVars, notifierVars>>

(* ---- the monitor: watch_contract and EventsManager::monitor_trade_phase ---- *)

\* a watch_contract request arrives
WatchContract(h, a) ==
    /\ calls[h].pc = "idle"
    /\ calls' = [calls EXCEPT ![h].pc = "phase", ![h].address = a]
    /\ UNCHANGED <<phase, tradeBlock, jobs, proofs, notified, notifQueue, events,
                   lock, watchers, provers, listener>>
    /\ UNCHANGED <<solverVars, guestVars, notifierVars>>

\* watch_contract refusing only the phases after Trade
WatchReadPhase_AfterTrade(h) ==
    /\ calls[h].pc = "phase"
    /\ \/ calls' = [calls EXCEPT ![h].pc = "ret", ![h].result = "TransportError"]
       \/ calls' = IF phase[calls[h].address] > TradePhase
                   THEN [calls EXCEPT ![h].pc = "ret", ![h].result = "PhaseTooLate"]
                   ELSE [calls EXCEPT ![h].pc = "block"]
    /\ UNCHANGED <<phase, tradeBlock, jobs, proofs, notified, notifQueue, events,
                   lock, watchers, provers, listener>>
    /\ UNCHANGED <<solverVars, guestVars, notifierVars>>

\* watch_contract: currentPhase().call(), and the check phase >= 2
WatchReadPhase(h) ==
    /\ calls[h].pc = "phase"
    /\ \/ calls' = [calls EXCEPT ![h].pc = "ret", ![h].result = "TransportError"]
       \/ calls' = IF phase[calls[h].address] >= TradePhase
                   THEN [calls EXCEPT ![h].pc = "ret", ![h].result = "PhaseTooLate"]
                   ELSE [calls EXCEPT ![h].pc = "block"]
    /\ UNCHANGED <<phase, tradeBlock, jobs, proofs, notified, notifQueue, events,
                   lock, watchers, provers, listener>>
    /\ UNCHANGED <<solverVars, guestVars, notifierVars>>

\* watch_contract: tradeInitiatedAtBlock().call() gives from_block
WatchReadBlock(h) ==
    /\ calls[h].pc = "block"
    /\ \/ calls' = [calls EXCEPT ![h].pc = "ret", ![h].result = "TransportError"]
       \/ calls' = [calls EXCEPT ![h].pc = "check",
                                 ![h].from_block = tradeBlock[calls[h].address]]
    /\ UNCHANGED <<phase, tradeBlock, jobs, proofs, notified, notifQueue, events,
                   lock, watchers, provers, listener>>
    /\ UNCHANGED <<solverVars, guestVars, notifierVars>>

\* monitor_trade_phase without the contains_key test
MonitorCheck_NoPresenceCheck(h) ==
    /\ calls[h].pc = "check"
    /\ lock = "free"
    /\ calls' = [calls EXCEPT ![h].pc = "insert"]
    /\ watchers' = [watchers EXCEPT ![h] =
           [pc |-> "subscribe", address |-> calls[h].address,
            from_block |-> calls[h].from_block, cursor |-> 0, result |-> "none"]]
    /\ UNCHANGED <<phase, tradeBlock, jobs, proofs, notified, notifQueue, events,
                   lock, provers, listener>>
    /\ UNCHANGED <<solverVars, guestVars, notifierVars>>

\* monitor_trade_phase, first critical section and the spawn: bail if the
\* address has a handle, else release the lock and spawn the watcher task
MonitorCheck(h) ==
    /\ calls[h].pc = "check"
    /\ lock = "free"
    /\ IF events[calls[h].address] # 0
       THEN /\ calls' = [calls EXCEPT ![h].pc = "ret",
                                      ![h].result = "AlreadyMonitored"]
            /\ UNCHANGED watchers
       ELSE /\ calls' = [calls EXCEPT ![h].pc = "insert"]
            /\ watchers' = [watchers EXCEPT ![h] =
                   [pc |-> "subscribe", address |-> calls[h].address,
                    from_block |-> calls[h].from_block, cursor |-> 0,
                    result |-> "none"]]
    /\ UNCHANGED <<phase, tradeBlock, jobs, proofs, notified, notifQueue, events,
                   lock, provers, listener>>
    /\ UNCHANGED <<solverVars, guestVars, notifierVars>>

\* monitor_trade_phase, second critical section: events.insert(address, handle)
MonitorInsert(h) ==
    /\ calls[h].pc = "insert"
    /\ lock = "free"
    /\ events' = [events EXCEPT ![calls[h].address] = h]
    /\ calls' = [calls EXCEPT ![h].pc = "ret", ![h].result = "Ok"]
    /\ UNCHANGED <<phase, tradeBlock, jobs, proofs, notified, notifQueue, lock,
                   watchers, provers, listener>>
    /\ UNCHANGED <<solverVars, guestVars, notifierVars>>

(* ---- the watcher task spawned by monitor_trade_phase ---- *)

Finish(w, result) ==
    watchers' = [watchers EXCEPT ![w].pc = "finished", ![w].result = result]

\* on_ws(ws).await? and filter.subscribe().await?: the subscription starts at
\* some point of the contract's log no later than its present head
WatcherSubscribe(w) ==
    /\ watchers[w].pc = "subscribe"
    /\ \/ Finish(w, "TransportError")
       \/ \E c \in 0..phase[watchers[w].address] :
            watchers' = [watchers EXCEPT ![w].pc = "stream", ![w].cursor = c]
    /\ UNCHANGED <<phase, tradeBlock, jobs, proofs, notified, notifQueue, events,
                   lock, calls, provers, listener>>
    /\ UNCHANGED <<solverVars, guestVars, notifierVars>>

\* a watch loop that records a job on every PhaseChanged event
WatcherOtherPhase_CreatesJob(w) ==
    /\ watchers[w].pc = "stream"
    /\ watchers[w].cursor < phase[watchers[w].address]
    /\ watchers[w].cursor + 1 # TradePhase
    /\ watchers' = [watchers EXCEPT ![w].cursor = @ + 1]
    /\ jobs' = create_job(jobs, NewJob(watchers[w].address, 0)).jobs
    /\ UNCHANGED <<phase, tradeBlock, proofs, notified, notifQueue, events, lock,
                   calls, provers, listener>>
    /\ UNCHANGED <<solverVars, guestVars, notifierVars>>

\* stream.next(): PhaseChanged { newPhase } with newPhase != 2 is only logged
WatcherOtherPhase(w) ==
    /\ watchers[w].pc = "stream"
    /\ watchers[w].cursor < phase[watchers[w].address]
    /\ watchers[w].cursor + 1 # TradePhase
    /\ watchers' = [watchers EXCEPT ![w].cursor = @ + 1]
    /\ UNCHANGED <<phase, tradeBlock, jobs, proofs, notified, notifQueue, events,
                   lock, calls, provers, listener>>
    /\ UNCHANGED <<solverVars, guestVars, notifierVars>>

\* a watch loop that goes on to the prover whatever create_job returned
WatcherTradePhase_IgnoreFailure(w) ==
    /\ watchers[w].pc = "stream"
    /\ watchers[w].cursor < phase[watchers[w].address]
    /\ watchers[w].cursor + 1 = TradePhase
    /\ LET a == watchers[w].address
           c == create_job(jobs, NewJob(a, tradeBlock[a]))
       IN  /\ jobs' = c.jobs
           /\ watchers' = [watchers EXCEPT ![w].pc = "assert_phase",
                                           ![w].cursor = @ + 1]
    /\ UNCHANGED <<phase, tradeBlock, proofs, notified, notifQueue, events, lock,
                   calls, provers, listener>>
    /\ UNCHANGED <<solverVars, guestVars, notifierVars>>

\* stream.next(): PhaseChanged { newPhase: 2 }: db.create_job(&job).await?
WatcherTradePhase(w) ==
    /\ watchers[w].pc = "stream"
    /\ watchers[w].cursor < phase[watchers[w].address]
    /\ watchers[w].cursor + 1 = TradePhase
    /\ LET a == watchers[w].address
           c == create_job(jobs, NewJob(a, tradeBlock[a]))
       IN  /\ jobs' = c.jobs
           /\ IF c.ok
              THEN watchers' = [watchers EXCEPT ![w].pc = "assert_phase",
                                                ![w].cursor = @ + 1]
              ELSE Finish(w, "CreateJobFailed")
    /\ UNCHANGED <<phase, tradeBlock, proofs, notified, notifQueue, events, lock,
                   calls, provers, listener>>
    /\ UNCHANGED <<solverVars, guestVars, notifierVars>>

\* a watch loop that subscribes again after a stream error
WatcherStreamError_Resubscribes(w) ==
    /\ watchers[w].pc = "stream"
    /\ watchers' = [watchers EXCEPT ![w].pc = "subscribe"]
    /\ UNCHANGED <<phase, tradeBlock, jobs, proofs, notified, notifQueue, events,
                   lock, calls, provers, listener>>
    /\ UNCHANGED <<solverVars, guestVars, notifierVars>>

\* stream.next() yields Err(e): return Err
WatcherStreamError(w) ==
    /\ watchers[w].pc = "stream"
    /\ Finish(w, "StreamError")
    /\ UNCHANGED <<phase, tradeBlock, jobs, proofs, notified, notifQueue, events,
                   lock, calls, provers, listener>>
    /\ UNCHANGED <<solverVars, guestVars, notifierVars>>

\* a watcher task that removes its own handle from the map when its stream ends
WatcherStreamEnd_RemovesHandle(w) ==
    /\ watchers[w].pc = "stream"
    /\ Finish(w, "Ok")
    /\ events' = [events EXCEPT ![watchers[w].address] = 0]
    /\ UNCHANGED <<phase, tradeBlock, jobs, proofs, notified, notifQueue,
                   lock, calls, provers, listener>>
    /\ UNCHANGED <<solverVars, guestVars, notifierVars>>

\* stream.next() yields None: the loop ends and the task returns Ok(())
WatcherStreamEnd(w) ==
    /\ watchers[w].pc = "stream"
    /\ Finish(w, "Ok")
    /\ UNCHANGED <<phase, tradeBlock, jobs, proofs, notified, notifQueue, events,
                   lock, calls, provers, listener>>
    /\ UNCHANGED <<solverVars, guestVars, notifierVars>>

\* a client whose prove returns after the phase check without sending the request
WatcherProve_NoRequest(w) ==
    /\ watchers[w].pc = "assert_phase"
    /\ \/ Finish(w, "TransportError")
       \/ IF phase[watchers[w].address] # TradePhase
          THEN Finish(w, "PhaseMismatch")
          ELSE Finish(w, "Ok")
    /\ UNCHANGED <<phase, tradeBlock, jobs, proofs, notified, notifQueue, events,
                   lock, calls, provers, listener>>
    /\ UNCHANGED <<solverVars, guestVars, notifierVars>>

\* remote::Prover::prove: assert_in_trade_phase, then the prove request
WatcherProve(w) ==
    /\ watchers[w].pc = "assert_phase"
    /\ \/ /\ Finish(w, "TransportError")
          /\ UNCHANGED provers
       \/ IF phase[watchers[w].address] # TradePhase
          THEN /\ Finish(w, "PhaseMismatch")
               /\ UNCHANGED provers
          ELSE /\ watchers' = [watchers EXCEPT ![w].pc = "prove_rpc"]
               /\ StartRun(w, watchers[w].address, "watcher")
    /\ UNCHANGED <<phase, tradeBlock, jobs, proofs, notified, notifQueue, events,
                   lock, calls, listener>>
    /\ UNCHANGED <<solverVars, guestVars, notifierVars>>

\* the prove request is answered: Ok(proof) ends the watcher with Ok(()),
\* an error response with Err
WatcherProveReturns(w) ==
    /\ watchers[w].pc = "prove_rpc"
    /\ provers[w].pc = "returned"
    /\ Finish(w, IF provers[w].result = "Ok" THEN "Ok" ELSE "ProveFailed")
    /\ UNCHANGED <<phase, tradeBlock, jobs, proofs, notified, notifQueue, events,
                   lock, calls, provers, listener>>
    /\ UNCHANGED <<solverVars, guestVars, notifierVars>>

\* the request_timeout of the client passes first: the watcher fails, the
\* run on the prover server goes on
WatcherProveTimeout(w) ==
    /\ watchers[w].pc = "prove_rpc"
    /\ provers[w].pc # "returned"
    /\ Finish(w, "ProveFailed")
    /\ UNCHANGED <<phase, tradeBlock, jobs, proofs, notified, notifQueue, events,
                   lock, calls, provers, listener>>
    /\ UNCHANGED <<solverVars, guestVars, notifierVars>>

(* ---- the listener of listen_for_job_updates and cancel_monitoring ---- *)

\* subs.recv().await yields the next notified address
ListenerRecv ==
    /\ listener.pc = "recv"
    /\ notifQueue # <<>>
    /\ listener' = [listener EXCEPT !.pc = "cancel", !.address = Head(notifQueue)]
    /\ notifQueue' = Tail(notifQueue)
    /\ UNCHANGED <<phase, tradeBlock, jobs, proofs, notified, events, lock, calls,
                   watchers, provers>>
    /\ UNCHANGED <<solverVars, guestVars, notifierVars>>

\* cancel_monitoring: lock, events.remove(&address); with a handle the guard
\* stays held while the handle is awaited
CancelLock ==
    /\ listener.pc = "cancel"
    /\ lock = "free"
    /\ events' = [events EXCEPT ![listener.address] = 0]
    /\ IF events[listener.address] # 0
       THEN /\ lock' = "cancel_monitoring"
            /\ listener' = [listener EXCEPT !.pc = "join",
                                            !.handle = events[listener.address]]
       ELSE /\ UNCHANGED lock
            /\ listener' = [listener EXCEPT !.pc = "recv", !.address = 0]
    /\ UNCHANGED <<phase, tradeBlock, jobs, proofs, notified, notifQueue, calls,
                   watchers, provers>>
    /\ UNCHANGED <<solverVars, guestVars, notifierVars>>

\* cancel_monitoring: the awaited handle completes within the timeout
CancelJoined ==
    /\ listener.pc = "join"
    /\ watchers[listener.handle].pc = "finished"
    /\ lock' = "free"
    /\ listener' = [pc |-> "recv", address |-> 0, handle |-> 0]
    /\ UNCHANGED <<phase, tradeBlock, jobs, proofs, notified, notifQueue, events,
                   calls, watchers, provers>>
    /\ UNCHANGED <<solverVars, guestVars, notifierVars>>

\* cancel_monitoring giving up after the timeout without abort()
CancelTimeout_NoAbort ==
    /\ listener.pc = "join"
    /\ watchers[listener.handle].pc # "finished"
    /\ lock' = "free"
    /\ listener' = [pc |-> "recv", address |-> 0, handle |-> 0]
    /\ UNCHANGED <<phase, tradeBlock, jobs, proofs, notified, notifQueue, events,
                   calls, watchers, provers>>
    /\ UNCHANGED <<solverVars, guestVars, notifierVars>>

\* a cancel_monitoring that deletes the job row of the address when it aborts
CancelTimeout_RollsBack ==
    /\ listener.pc = "join"
    /\ watchers[listener.handle].pc # "finished"
    /\ watchers' = [watchers EXCEPT ![listener.handle].pc = "aborted"]
    /\ jobs' = {j \in jobs : j.address # listener.address}
    /\ lock' = "free"
    /\ listener' = [pc |-> "recv", address |-> 0, handle |-> 0]
    /\ UNCHANGED <<phase, tradeBlock, proofs, notified, notifQueue, events,
                   calls, provers>>
    /\ UNCHANGED <<solverVars, guestVars, notifierVars>>

\* cancel_monitoring: the timeout elapses first: abort_handle.abort()
CancelTimeout ==
    /\ listener.pc = "join"
    /\ watchers[listener.handle].pc # "finished"
    /\ watchers' = [watchers EXCEPT ![listener.handle].pc = "aborted"]
    /\ lock' = "free"
    /\ listener' = [pc |-> "recv", address |-> 0, handle |-> 0]
    /\ UNCHANGED <<phase, tradeBlock, jobs, proofs, notified, notifQueue, events,
                   calls, provers>>
    /\ UNCHANGED <<solverVars, guestVars, notifierVars>>

----------------------------------------------------------------------------
(* Part III: the zkVM guest                                                 *)
(*                                                                          *)
(* main reads its inputs, calls getAllTokenPreferences() on the escrow at   *)
(* the committed block, runs the solver and commits the Journal.            *)

(* Bounds of the guest inputs *)
MaxTokens == 2    \* token ids
MaxOwners == 2    \* depositor addresses

TokenIds == 1..MaxTokens

OwnerAddrs == 1..MaxOwners

\* preference lists over token ids, entries distinct
TokenPrefLists == {s \in SeqsUpTo(TokenIds, MaxTokens) : IsDistinctSeq(s)}

\* struct TokenPreferences of the contract ABI, as far as the guest reads it
TokenPreferences ==
    [owner : OwnerAddrs, tokenId : TokenIds, preferences : TokenPrefLists]

\* what getAllTokenPreferences() may return: one entry for each deposited token
EscrowResults ==
    {s \in SeqsUpTo(TokenPreferences, MaxTokens) :
        \A i, j \in DOMAIN s : i < j => s[i].tokenId < s[j].tokenId}

\* what the host may write as the third input: any Vec<TokenPreferences>
HostInputs == SeqsUpTo(TokenPreferences, MaxTokens)

\* build_owner_dict: collect() of (tokenId, owner) into a HashMap, a later
\* entry replacing an earlier one with the same key
RECURSIVE build_owner_dict(_)
build_owner_dict(ps) ==
    IF ps = <<>> THEN <<>>
    ELSE MapInsert(build_owner_dict(SubSeq(ps, 1, Len(ps) - 1)),
                   ps[Len(ps)].tokenId, ps[Len(ps)].owner)

\* reallocate: collect() of (tokenId, preferences) into the HashMap handed to
\* Preferences::new
RECURSIVE PreferencesOf(_)
PreferencesOf(ps) ==
    IF ps = <<>> THEN <<>>
    ELSE MapInsert(PreferencesOf(SubSeq(ps, 1, Len(ps) - 1)),
                   ps[Len(ps)].tokenId, ps[Len(ps)].preferences)

\* the solver calls of reallocate in one piece: Preferences::new(ps).unwrap(),
\* PreferenceGraph::new(prefs).unwrap(), g.solve_preferences().unwrap() and
\* Allocation::from; ok is FALSE when one of the unwraps panics
GuestAllocation(ps, order) ==
    LET m == PreferencesOf(ps)
    IN  IF ~PreferencesNewOk(m) \/ DOMAIN m = {}
        THEN [ok |-> FALSE, allocation |-> <<>>]
        ELSE LET sol == solve_preferences(PreferenceGraphNew(order, m), m, <<>>)
             IN  IF sol.status # "ok"
                 THEN [ok |-> FALSE, allocation |-> <<>>]
                 ELSE [ok |-> TRUE, allocation |-> AllocationFrom(sol.cycles)]

\* reallocate, after the solver: every (new_owner, token_id) of the
\* allocation, in the order iter of the HashMap's into_iter, becomes
\* TokenReallocation { newOwner: depositor_address_from_token_id[new_owner],
\* tokenId: token_id }
reallocate(depositor_address_from_token_id, alloc, iter) ==
    [i \in DOMAIN iter |->
        [newOwner |-> depositor_address_from_token_id[iter[i]],
         tokenId |-> alloc[iter[i]]]]

\* struct Journal
Journal(reallocations) ==
    [commitment |-> "committed_block", ttcContract |-> "contract",
     reallocations |-> reallocations]

GuestIdle ==
    /\ returns = <<>>
    /\ preferences = <<>>
    /\ gpc = "idle"
    /\ journal = None

\* main calls reallocate(owner_dict, returns), which collects the preference
\* lists of the view call into the HashMap handed to Preferences::new; the
\* solver then runs on it (New, SolveIteration, SolveReturn)
GuestReallocate ==
    /\ gpc = "start"
    /\ gpc' = "solving"
    /\ input' = PreferencesOf(returns)
    /\ keyOrder' \in Perms(DOMAIN PreferencesOf(returns))
    /\ UNCHANGED <<spc, serr, graph, prefs, res, iters, allocation, cmp>>
    /\ UNCHANGED <<returns, preferences, journal>>
    /\ UNCHANGED <<orchVars, notifierVars>>

\* the rest of reallocate and of main: an error of the solver panics in its
\* unwrap, a key the dictionary lacks panics in get(..).unwrap(); otherwise
\* the reallocations are built with owner_dict = build_owner_dict(&preferences)
\* and the Journal is committed
GuestCommit ==
    /\ gpc = "solving"
    /\ spc \in {"done", "err"}
    /\ LET owner_dict == build_owner_dict(preferences)
       IN  IF spc = "err" \/ \E k \in DOMAIN allocation : k \notin DOMAIN owner_dict
           THEN /\ gpc' = "panicked"
                /\ journal' = None
           ELSE /\ gpc' = "committed"
                /\ \E iter \in Perms(DOMAIN allocation) :
                      journal' = Some(Journal(reallocate(owner_dict, allocation, iter)))
    /\ UNCHANGED <<returns, preferences>>
    /\ UNCHANGED <<solverVars, orchVars, notifierVars>>

----------------------------------------------------------------------------
(* Part IV: the notifier                                                    *)
(*                                                                          *)
(* PgNotifier::new spawns a task that turns the PgListener stream into      *)
(* decoded values on an unbounded channel; subscribe() hands out the        *)
(* receiver.  Payloads are strings, here sequences of characters.           *)

(* Bounds of the notifier *)
MaxPublished == 4     \* pg_notify calls in one behaviour
MaxPayload == 3       \* the integers 1..MaxPayload are published
MaxRecvErrors == 1    \* Err items of the PgListener stream

DigitChars == <<"0", "1", "2", "3", "4", "5", "6", "7", "8", "9">>

\* serde_json::to_string of a non-negative integer: its decimal digits
RECURSIVE to_string(_)
to_string(n) ==
    IF n < 10 THEN <<DigitChars[n + 1]>>
    ELSE Append(to_string(n \div 10), DigitChars[(n % 10) + 1])

\* the value of a string of digits
RECURSIVE DigitsValue(_)
DigitsValue(s) ==
    IF s = <<>> THEN 0
    ELSE 10 * DigitsValue(SubSeq(s, 1, Len(s) - 1))
         + (CHOOSE d \in 0..9 : DigitChars[d + 1] = s[Len(s)])

\* WrappedInt::decode_payload: FromStr::from_str(payload), a ParseIntError
\* for the empty string and for a string with a character that is no digit
decode_payload(payload) ==
    IF payload = <<>> \/ \E i \in DOMAIN payload : payload[i] \notin Range(DigitChars)
    THEN [ok |-> FALSE, data |-> 0]
    ELSE [ok |-> TRUE, data |-> DigitsValue(payload)]

\* the payloads published: the integers as the test formats them, and two
\* payloads that do not decode
Payloads == {to_string(n) : n \in 1..MaxPayload} \cup {<<>>, <<"1", "x">>}

NotifierIdle ==
    /\ published = <<>>
    /\ pgstream = <<>>
    /\ mpsc = <<>>
    /\ received = <<>>
    /\ recvErrors = 0

\* publish_notification: SELECT pg_notify(channel, payload); the listening
\* connection gets the notifications of a channel in the order of the calls
publish_notification(payload) ==
    /\ Len(published) < MaxPublished
    /\ published' = Append(published, payload)
    /\ pgstream' = Append(pgstream, [ok |-> TRUE, payload |-> payload])
    /\ UNCHANGED <<mpsc, received, recvErrors>>
    /\ UNCHANGED <<solverVars, orchVars, guestVars>>

\* the PgListener stream yields Err(e)
ListenerStreamError ==
    /\ recvErrors < MaxRecvErrors
    /\ recvErrors' = recvErrors + 1
    /\ pgstream' = Append(pgstream, [ok |-> FALSE, payload |-> <<>>])
    /\ UNCHANGED <<published, mpsc, received>>
    /\ UNCHANGED <<solverVars, orchVars, guestVars>>

\* the closure of filter_map: Some(data) for a notification whose payload
\* decodes, None for a deserialization error and for Err(e)
FilterMap(message) ==
    IF message.ok /\ decode_payload(message.payload).ok
    THEN Some(decode_payload(message.payload).data)
    ELSE None

\* a forwarding task whose channel holds one value and drops what does not fit
Forward_Bounded ==
    /\ pgstream # <<>>
    /\ pgstream' = Tail(pgstream)
    /\ mpsc' = IF mpsc = <<>> THEN FilterMap(Head(pgstream)) ELSE mpsc
    /\ UNCHANGED <<published, received, recvErrors>>
    /\ UNCHANGED <<solverVars, orchVars, guestVars>>

\* the spawned task: the next item of the stream goes through filter_map, and
\* for_each sends what is left on the unbounded channel
Forward ==
    /\ pgstream # <<>>
    /\ pgstream' = Tail(pgstream)
    /\ mpsc' = mpsc \o FilterMap(Head(pgstream))
    /\ UNCHANGED <<published, received, recvErrors>>
    /\ UNCHANGED <<solverVars, orchVars, guestVars>>

\* subscriber.recv()
SubscriberRecv ==
    /\ mpsc # <<>>
    /\ received' = Append(received, Head(mpsc))
    /\ mpsc' = Tail(mpsc)
    /\ UNCHANGED <<published, pgstream, recvErrors>>
    /\ UNCHANGED <<solverVars, orchVars, guestVars>>

----------------------------------------------------------------------------
(* ---- the orchestrator as a whole ---- *)

SolverIdle ==
    /\ input = <<>>
    /\ keyOrder = <<>>
    /\ spc = "start"
    /\ serr = "none"
    /\ graph = GraphNew
    /\ prefs = <<>>
    /\ res = <<>>
    /\ iters = 0
    /\ allocation = <<>>
    /\ cmp = NoComparison

Init == SolverIdle /\ OrchInit /\ GuestIdle /\ NotifierIdle

Next ==
    \/ \E a \in Addrs : AdvancePhase(a)
    \/ \E r \in RunIds, a \in Addrs : ExternalProve(r, a)
    \/ \E r \in RunIds, a \in Addrs : ExternalProveAsync(r, a)
    \/ \E r \in RunIds : ProverBackend(r)
    \/ \E r \in RunIds : ProverCreateProof(r)
    \/ \E r \in RunIds : ProverSetCompleted(r)
    \/ \E r \in RunIds : ProverSetErrored(r)
    \/ \E h \in CallIds, a \in Addrs : WatchContract(h, a)
    \/ \E h \in CallIds : WatchReadPhase(h)
    \/ \E h \in CallIds : WatchReadBlock(h)
    \/ \E h \in CallIds : MonitorCheck(h)
    \/ \E h \in CallIds : MonitorInsert(h)
    \/ \E w \in CallIds : WatcherSubscribe(w)
    \/ \E w \in CallIds : WatcherOtherPhase(w)
    \/ \E w \in CallIds : WatcherTradePhase(w)
    \/ \E w \in CallIds : WatcherStreamError(w)
    \/ \E w \in CallIds : WatcherStreamEnd(w)
    \/ \E w \in CallIds : WatcherProve(w)
    \/ \E w \in CallIds : WatcherProveReturns(w)
    \/ \E w \in CallIds : WatcherProveTimeout(w)
    \/ ListenerRecv
    \/ CancelLock
    \/ CancelJoined
    \/ CancelTimeout

Spec == Init /\ [][Next]_vars

----------------------------------------------------------------------------
(* The solver run as a state machine *)

SolverInit ==
    /\ input \in Inputs
    /\ keyOrder \in Perms(DOMAIN input)
    /\ spc = "start"
    /\ serr = "none"
    /\ graph = GraphNew
    /\ prefs = <<>>
    /\ res = <<>>
    /\ iters = 0
    /\ allocation = <<>>
    /\ cmp = NoComparison
    /\ OrchInit
    /\ GuestIdle
    /\ NotifierIdle

\* Preferences::new(input) then PreferenceGraph::new(prefs)
New ==
    /\ spc = "start"
    /\ IF ~PreferencesNewOk(input)
         THEN /\ spc' = "err" /\ serr' = "InvalidChoice"
              /\ UNCHANGED <<graph, prefs>>
       ELSE IF keyOrder = <<>>
         THEN /\ spc' = "err" /\ serr' = "EmptyGraph"
              /\ UNCHANGED <<graph, prefs>>
       ELSE /\ spc' = "loop" /\ serr' = "none"
            /\ graph' = PreferenceGraphNew(keyOrder, input)
            /\ prefs' = input
    /\ UNCHANGED <<input, keyOrder, res, iters, allocation, cmp>>
    /\ UNCHANGED <<orchVars, guestVars, notifierVars>>

\* one iteration of `while self.graph.node_count() > 0`
SolveIteration ==
    /\ spc = "loop"
    /\ node_count(graph) > 0
    /\ LET b == LoopBody(graph, prefs)
       IN  /\ graph' = b.graph
           /\ prefs' = b.prefs
           /\ IF b.status = "ok"
                THEN /\ res' = Append(res, b.cycle)
                     /\ iters' = iters + 1
                     /\ UNCHANGED <<spc, serr>>
                ELSE /\ spc' = "err"
                     /\ serr' = b.status
                     /\ UNCHANGED <<res, iters>>
    /\ UNCHANGED <<input, keyOrder, allocation, cmp>>
    /\ UNCHANGED <<orchVars, guestVars, notifierVars>>

\* the loop ends, Ok(res) is returned and turned into an Allocation
SolveReturn ==
    /\ spc = "loop"
    /\ node_count(graph) = 0
    /\ spc' = "done"
    /\ allocation' = AllocationFrom(res)
    /\ UNCHANGED <<input, keyOrder, serr, graph, prefs, res, iters, cmp>>
    /\ UNCHANGED <<orchVars, guestVars, notifierVars>>

SolverNext == New \/ SolveIteration \/ SolveReturn

SolverSpec == SolverInit /\ [][SolverNext]_vars

----------------------------------------------------------------------------
(* Reference definitions used to state the solver claims *)

Participants == DOMAIN input

\* the first entry of P[v] that is still in S, v itself if there is none
TopChoice(P, S, v) ==
    LET alive == {i \in DOMAIN P[v] : P[v][i] \in S}
    IN  IF alive = {} THEN v
        ELSE P[v][CHOOSE i \in alive : \A j \in alive : i <= j]

RECURSIVE TopIter(_, _, _, _)
TopIter(P, S, v, k) == IF k = 0 THEN v ELSE TopChoice(P, S, TopIter(P, S, v, k - 1))

OnTopCycle(P, S, v) == \E k \in 1..Cardinality(S) : TopIter(P, S, v, k) = v

\* textbook Top Trading Cycles: in every round each member of a cycle of the
\* top-choice graph receives the participant it points at and leaves
RECURSIVE ReferenceTTC(_, _)
ReferenceTTC(P, S) ==
    IF S = {} THEN <<>>
    ELSE LET C == {v \in S : OnTopCycle(P, S, v)}
         IN  [v \in C |-> TopChoice(P, S, v)] @@ ReferenceTTC(P, S \ C)

\* v ranks x strictly better than y in its own list (unlisted = after all)
Prefers(P, v, x, y) == rank(P, v, x) < rank(P, v, y)

SolverDone == spc = "done"

----------------------------------------------------------------------------
(* Claims about the solver, checked under SolverSpec *)

\* C1: for every valid preference mapping the allocation built from the
\* cycles of solve_preferences is the Top-Trading-Cycles allocation, and on
\* the paper example the cycles are {S3}, {S1,S2,S5}, {S4,S6} in that order.
C1_SolverComputesTTC ==
    (SolverDone /\ ValidInput(input)) =>
        /\ allocation = ReferenceTTC(input, Participants)
        /\ input = PaperExample =>
              /\ Len(res) = 3
              /\ CycleEq(res[1], <<3>>)
              /\ CycleEq(res[2], <<1, 2, 5>>)
              /\ CycleEq(res[3], <<4, 6>>)
              /\ allocation = <<2, 5, 3, 6, 1, 4>>

C1_Witness ==
    /\ SolverDone
    /\ input = PaperExample
    /\ allocation = <<2, 5, 3, 6, 1, 4>>
    /\ keyOrder = <<6, 4, 2, 5, 1, 3>>

\* C2: the returned cycles partition the participants: pairwise disjoint,
\* no vertex twice in a cycle, and their union is the key set of the input.
C2_CyclesPartition ==
    (SolverDone /\ ValidInput(input)) =>
        /\ \A i, j \in DOMAIN res : i # j => Range(res[i]) \cap Range(res[j]) = {}
        /\ \A i \in DOMAIN res : IsDistinctSeq(res[i])
        /\ UNION {Range(res[i]) : i \in DOMAIN res} = Participants

C2_Witness ==
    /\ SolverDone
    /\ Cardinality(Participants) = 3
    /\ Len(res) = 2
    /\ \E i \in DOMAIN res : Len(res[i]) = 2

\* C3: individual rationality: every participant keeps its own token or gets
\* one it lists strictly before its own position in its list.
C3_IndividuallyRational ==
    (SolverDone /\ ValidInput(input)) =>
        \A v \in Participants :
            \/ allocation[v] = v
            \/ /\ Contains(input[v], allocation[v])
               /\ Prefers(input, v, allocation[v], v)

C3_Witness ==
    /\ SolverDone
    /\ \E v \in Participants :
          /\ allocation[v] # v
          /\ Contains(input[v], v)
          /\ Position(input[v], v) < Len(input[v])
    /\ \E w \in Participants : allocation[w] = w /\ input[w] # <<>> /\ input[w][1] # w

\* C4: core stability for pairs: no two distinct participants both strictly
\* prefer the other's allocation to their own.
C4_NoBlockingPair ==
    (SolverDone /\ ValidInput(input)) =>
        ~ \E u, w \in Participants :
              /\ u # w
              /\ Prefers(input, u, allocation[w], allocation[u])
              /\ Prefers(input, w, allocation[u], allocation[w])

C4_Witness ==
    /\ SolverDone
    /\ \E u, w \in Participants :
          /\ u # w
          /\ Prefers(input, u, allocation[w], allocation[u])
          /\ ~Prefers(input, w, allocation[u], allocation[w])

\* the cycle lists a and b hold the same cycles up to rotation and order
SameCycles(a, b) ==
    /\ Len(a) = Len(b)
    /\ \E f \in Perms(DOMAIN a) : \A i \in DOMAIN a : CycleEq(a[i], b[f[i]])

\* the result of a whole run with the keys inserted in the given order
SolveWithOrder(order) == solve_preferences(PreferenceGraphNew(order, input), input, <<>>)

\* the keys in ascending order
RECURSIVE Ascending(_)
Ascending(S) ==
    IF S = {} THEN <<>>
    ELSE LET m == CHOOSE x \in S : \A y \in S : x <= y
         IN  <<m>> \o Ascending(S \ {m})

\* C5: determinism: the result of solve_preferences depends only on the
\* contents of the mapping: whatever the insertion order of the vertices
\* (hence whatever the DFS start vertex), the returned list of cycles is the
\* list returned by the run that inserts the keys in ascending order, cycle
\* by cycle under the equality of Cycle (Vec<Cycle<V>> equality).
C5_SameResult ==
    (SolverDone /\ ValidInput(input)) =>
        LET other == SolveWithOrder(Ascending(Participants))
        IN  /\ other.status = "ok"
            /\ Len(other.cycles) = Len(res)
            /\ \A i \in DOMAIN res : CycleEq(other.cycles[i], res[i])

\* what every insertion order does agree on: the allocation, and the cycles
\* as a set (up to rotation and up to their order in the list)
C5_AllocationInvariant ==
    (SolverDone /\ ValidInput(input)) =>
        LET other == SolveWithOrder(Ascending(Participants))
        IN  /\ other.status = "ok"
            /\ AllocationFrom(other.cycles) = allocation
            /\ SameCycles(other.cycles, res)

\* two insertion orders of one mapping whose lists of cycles differ in the
\* order of the cycles
C5_Witness ==
    /\ SolverDone
    /\ ValidInput(input)
    /\ keyOrder # Ascending(Participants)
    /\ LET other == SolveWithOrder(Ascending(Participants))
       IN  /\ Len(other.cycles) = Len(res)
           /\ \E i \in DOMAIN res : ~CycleEq(other.cycles[i], res[i])
           /\ AllocationFrom(other.cycles) = allocation

\* C6: on a valid non-empty mapping with n participants every iteration
\* finds a cycle and removes at least one vertex, nothing panics, and the
\* loop ends with Ok after at most n iterations.
C6_TerminatesWithinN ==
    (ValidInput(input) /\ Participants # {}) =>
        LET n == Cardinality(Participants)
        IN  /\ serr = "none"
            /\ spc \in {"start", "loop", "done"}
            /\ iters <= n
            /\ spc = "loop" => node_count(graph) + iters <= n
            /\ (spc = "loop" /\ node_count(graph) > 0) =>
                  LET b == LoopBody(graph, prefs)
                  IN  b.status = "ok" /\ node_count(b.graph) < node_count(graph)
            /\ spc = "done" => (node_count(graph) = 0 /\ Len(res) = iters)

C6_Witness ==
    /\ SolverDone
    /\ iters = 3
    /\ Cardinality(Participants) = 3

\* C7: invalid input is rejected before any solving: a list entry that is
\* not a key gives InvalidChoice, an empty mapping gives EmptyGraph, and no
\* cycle is produced in either case.
C7_InvalidInputRejected ==
    spc # "start" =>
        /\ (\E k \in Participants : \E i \in DOMAIN input[k] : input[k][i] \notin Participants)
              => (spc = "err" /\ serr = "InvalidChoice" /\ res = <<>> /\ iters = 0
                  /\ graph = GraphNew)
        /\ Participants = {}
              => (spc = "err" /\ serr = "EmptyGraph" /\ res = <<>> /\ iters = 0
                  /\ graph = GraphNew)

C7_Witness ==
    /\ spc = "err"
    /\ serr = "InvalidChoice"
    /\ Participants # {}
    /\ \E k \in Participants : input[k] # <<>> /\ input[k][1] \in Participants

C7_WitnessEmpty == spc = "err" /\ serr = "EmptyGraph" /\ Participants = {}

----------------------------------------------------------------------------
(* Claims about the store *)

Terminal == {"completed", "errored"}

\* position of a status in Created -> InProgress -> (Completed | Errored)
StatusRank(s) ==
    CASE s = "created" -> 0
      [] s = "in_progress" -> 1
      [] OTHER -> 2

\* C8: job status is monotonic. In every step, a job row that changes was not
\* yet Completed or Errored, and its new status is not earlier in
\* Created -> InProgress -> (Completed | Errored) than its old one; a row that
\* is Completed or Errored is never changed again.
C8_StatusMonotonic ==
    [][\A old \in jobs : \A new \in jobs' :
          (new.address = old.address /\ new # old) =>
              /\ old.status \notin Terminal
              /\ StatusRank(new.status) >= StatusRank(old.status)]_vars

\* C9: in every reachable state a proof row exists for an address exactly
\* when the job row of that address is Completed, so get_proof answers with
\* the proof exactly when get_proof_status answers Completed.
C9_ProofIffCompleted ==
    \A a \in Addrs :
        /\ (\E p \in proofs : p.address = a)
              <=> (\E j \in jobs : j.address = a /\ j.status = "completed")
        /\ get_proof(a).ok
              <=> (get_proof_status(a).ok /\ get_proof_status(a).status = "completed")

\* C10: create_job inserts the row, in status Created, when the address has no
\* row; otherwise it fails and leaves the table as it was; so no step leaves
\* two job rows for one address, however many watchers call it.
C10_CreateJob ==
    [][/\ \A a \in Addrs : Cardinality({r \in jobs' : r.address = a}) <= 1
       /\ \A w \in CallIds :
            LET a == watchers[w].address
                called == /\ watchers[w].pc = "stream"
                          /\ watchers'[w].pc \in {"assert_phase", "finished"}
                          /\ watchers'[w].result \in {"none", "CreateJobFailed"}
            IN  called =>
                  IF \E r \in jobs : r.address = a
                  THEN /\ watchers'[w].result = "CreateJobFailed"
                       /\ jobs' = jobs
                  ELSE /\ watchers'[w].pc = "assert_phase"
                       /\ jobs' = jobs \cup
                            {[address |-> a, block_number |-> tradeBlock[a],
                              block_timestamp |-> BlockTimestamp(tradeBlock[a]),
                              status |-> "created", error |-> None,
                              completed_at |-> None]}]_vars

\* a second watcher of the address was refused by create_job while the row
\* of the first had already moved on
C10_Witness ==
    /\ \E w \in CallIds : watchers[w].result = "CreateJobFailed"
    /\ \E r \in jobs : r.status = "completed"
    /\ \A a \in Addrs : Cardinality({r \in jobs : r.address = a}) <= 1

\* a run of prove_impl executes update_job_status in this step
RunUpdatesStatus(r) ==
    /\ provers[r].pc \in {"set_completed", "set_errored"}
    /\ provers'[r].pc = "returned"

\* C11: a status transition on an address that has no job row fails (it never
\* reports success) and leaves the jobs and proofs tables unchanged.
C11_UpdateAbsentFails ==
    [][\A r \in RunIds :
          (RunUpdatesStatus(r) /\ ~get_job_by_address(jobs, provers[r].address).ok) =>
              /\ ~update_job_status(jobs, provers[r].address,
                                    IF provers[r].pc = "set_completed"
                                    THEN "completed" ELSE "errored",
                                    None, None).ok
              /\ provers'[r].result # "Ok"
              /\ jobs' = jobs
              /\ proofs' = proofs]_vars

\* a run of prove_impl executes create_proof in this step
RunCreatesProof(r) ==
    /\ provers[r].pc = "create_proof"
    /\ provers'[r].pc \in {"set_completed", "returned"}

\* C12: create_proof is idempotent under identical bytes (the repeated call
\* succeeds and leaves the table unchanged) and fails under conflicting bytes;
\* the journal and seal stored for an address are written at most once and
\* never change.
C12_PutProofIdempotent ==
    [][/\ \A old \in proofs : old \in proofs'
       /\ \A a \in Addrs : Cardinality({p \in proofs' : p.address = a}) <= 1
       /\ \A r \in RunIds :
            RunCreatesProof(r) =>
                LET p == NewProof(provers[r].address, provers[r].receipt)
                    stored == get_proof_opt_by_address(proofs, p.address)
                IN  IF stored = None
                    THEN provers'[r].pc = "set_completed" /\ proofs' = proofs \cup {p}
                    ELSE IF stored = Some(p)
                    THEN provers'[r].pc = "set_completed" /\ proofs' = proofs
                    ELSE /\ provers'[r].result = "CreateProofFailed"
                         /\ proofs' = proofs]_vars

----------------------------------------------------------------------------
(* Claims about notifications *)

\* the job row of address a goes from a non-terminal to a terminal status
TerminalTransition(a) ==
    \E old \in jobs : \E new \in jobs' :
        /\ old.address = a /\ new.address = a
        /\ old.status \notin Terminal
        /\ new.status \in Terminal

\* C13: an address is published on job_channel exactly once per terminal
\* transition of its job: a step that takes the row from Created/InProgress
\* to Completed/Errored publishes one notification, every other step
\* publishes none, and so at most one is ever published per address.
C13_NotifyOncePerTerminal ==
    [][\A a \in Addrs :
          /\ notified'[a] = notified[a] + (IF TerminalTransition(a) THEN 1 ELSE 0)
          /\ notified'[a] <= 1]_vars

\* the watcher's run completed the job, a second run then overwrote the
\* terminal row, and still one notification was published
C13_Witness ==
    \E a \in Addrs :
        /\ notified[a] = 1
        /\ \E j \in jobs : j.address = a /\ j.status = "errored"
        /\ \E r \in RunIds : /\ provers[r].address = a
                              /\ provers[r].client = "watcher"
                              /\ provers[r].result = "Ok"

\* the job row of address a is committed with a terminal status
TerminalRow(a) == \E j \in jobs : j.address = a /\ j.status \in Terminal

\* C14: the terminal status write and its notification are one atomic write:
\* in every reachable state an address has been published exactly when its
\* job row is Completed or Errored, and every address in flight to, or
\* received by, the subscriber has a terminal row.
C14_NotifiedIffTerminal ==
    /\ \A a \in Addrs : (notified[a] > 0) <=> TerminalRow(a)
    /\ \A i \in DOMAIN notifQueue : TerminalRow(notifQueue[i])
    /\ listener.pc \in {"cancel", "join"} => TerminalRow(listener.address)

\* the subscriber has received the address of a job that is Completed
C14_Witness ==
    /\ listener.pc = "cancel"
    /\ \E j \in jobs : j.address = listener.address /\ j.status = "completed"
    /\ notified[listener.address] = 1

----------------------------------------------------------------------------
(* Claims about the events manager *)

\* the watcher tasks of address a that have been spawned and have neither
\* returned nor been aborted
LiveWatchers(a) ==
    {w \in CallIds : /\ watchers[w].address = a
                     /\ watchers[w].pc \in {"subscribe", "stream", "assert_phase",
                                            "prove_rpc"}}

\* C15: for a single contract address at most one watcher task is running at
\* any time, under every interleaving of monitor_trade_phase calls,
\* cancel_monitoring calls and watcher completions.
C15_OneWatcherPerAddress ==
    \A a \in Addrs : Cardinality(LiveWatchers(a)) <= 1

\* some run of prove_impl executes update_job_status for address a in this step
RunUpdatesStatusOf(a) ==
    \E r \in RunIds : RunUpdatesStatus(r) /\ provers[r].address = a

\* the runs of prove_impl for address a that have started and not returned
RunsInFlight(a) ==
    {r \in RunIds : /\ provers[r].address = a
                    /\ provers[r].pc \in {"proving", "create_proof", "set_completed",
                                          "set_errored"}}

\* C16: for a single contract address at most one prover request is in flight
\* at a time, and its job row makes at most one terminal transition: no step
\* leaves two runs in flight, and no step writes a row that is already
\* Completed or Errored.
C16_OneProveOneTerminal ==
    [][\A a \in Addrs :
          /\ Cardinality(RunsInFlight(a))' <= 1
          /\ TerminalRow(a) => ~RunUpdatesStatusOf(a)]_vars

\* C17: monitor_trade_phase fails with AlreadyMonitored, spawning nothing and
\* leaving the handle map alone, whenever the address is in the map at its
\* presence check; otherwise it spawns exactly one watcher for the address
\* and then records that handle and returns Ok. Hence a watch_contract call
\* whose presence check comes after an earlier call for the same contract
\* has returned Ok, the contract being below Trade, fails with
\* AlreadyMonitored.
C17_AlreadyMonitored ==
    [][\A h \in CallIds :
          LET a == calls[h].address
          IN  /\ (calls[h].pc = "check" /\ calls'[h].pc # "check") =>
                    IF events[a] # 0
                    THEN /\ calls'[h].pc = "ret"
                         /\ calls'[h].result = "AlreadyMonitored"
                         /\ watchers' = watchers
                         /\ events' = events
                    ELSE /\ calls'[h].pc = "insert"
                         /\ watchers[h].pc = "none"
                         /\ watchers'[h].pc = "subscribe"
                         /\ watchers'[h].address = a
                         /\ watchers'[h].from_block = calls[h].from_block
                         /\ \A w \in CallIds \ {h} : watchers'[w] = watchers[w]
                         /\ events' = events
              /\ (calls[h].pc = "insert" /\ calls'[h].pc # "insert") =>
                    /\ calls'[h].pc = "ret"
                    /\ calls'[h].result = "Ok"
                    /\ events' = [events EXCEPT ![a] = h]
                    /\ watchers' = watchers
              /\ (/\ calls[h].pc = "check" /\ calls'[h].pc # "check"
                  /\ phase[a] < TradePhase
                  /\ \E g \in CallIds \ {h} : /\ calls[g].address = a
                                              /\ calls[g].pc = "ret"
                                              /\ calls[g].result = "Ok")
                    => calls'[h].result = "AlreadyMonitored"]_vars

\* two watch_contract calls for one contract below Trade have returned: one
\* Ok, the other AlreadyMonitored, and one watcher was spawned
C17_Witness ==
    \E g, h \in CallIds :
        /\ calls[g].pc = "ret" /\ calls[g].result = "Ok"
        /\ calls[h].pc = "ret" /\ calls[h].result = "AlreadyMonitored"
        /\ calls[g].address = calls[h].address
        /\ phase[calls[g].address] < TradePhase
        /\ watchers[g].pc # "none"
        /\ watchers[h].pc = "none"
        /\ events[calls[g].address] = g

\* C18: cancel_monitoring always comes to its end and returns Ok: it is never
\* blocked (the lock is free when it asks for it, and the awaited handle
\* either completes or times out); with a handle, the handle is removed and
\* when the call returns the task has finished or has been aborted; with no
\* handle the call changes neither the map nor any task.
C18_CancelReturns ==
    [][/\ listener.pc = "cancel" => lock = "free"
       /\ listener.pc = "join" =>
             /\ lock = "cancel_monitoring"
             /\ listener.handle \in CallIds
             /\ events[listener.address] = 0
       /\ (listener.pc = "cancel" /\ listener'.pc # "cancel") =>
             IF events[listener.address] = 0
             THEN /\ listener'.pc = "recv"
                  /\ events' = events
                  /\ watchers' = watchers
                  /\ lock' = lock
             ELSE /\ listener'.pc = "join"
                  /\ listener'.handle = events[listener.address]
                  /\ events' = [events EXCEPT ![listener.address] = 0]
                  /\ watchers' = watchers
       /\ (listener.pc = "join" /\ listener'.pc # "join") =>
             /\ listener'.pc = "recv"
             /\ lock' = "free"
             /\ events' = events
             /\ watchers'[listener.handle].pc \in {"finished", "aborted"}
             /\ \A w \in CallIds \ {listener.handle} : watchers'[w] = watchers[w]]_vars

\* a cancel has returned after aborting a watcher that was still running
C18_Witness ==
    /\ listener.pc = "recv"
    /\ lock = "free"
    /\ \E w \in CallIds : /\ watchers[w].pc = "aborted"
                           /\ events[watchers[w].address] = 0

\* the notification of address a has been published and processed, and no
\* call is left that could still touch the handle of a: the listener is
\* back in recv on an empty channel (an address is published at most once),
\* and no watch_contract call is in progress (a later one finds a in Trade
\* or beyond and is refused before monitor_trade_phase)
NotificationProcessed(a) ==
    /\ notified[a] >= 1
    /\ listener.pc = "recv"
    /\ notifQueue = <<>>
    /\ \A h \in CallIds : calls[h].pc \in {"idle", "ret"}

\* C19: completed or errored jobs leave no dangling watcher: once the job of
\* an address is terminal and its notification has been processed, the
\* handle map ends up without an entry for the address, under every
\* interleaving of the cancel with monitor_trade_phase. Stated on the states
\* from which the map can no longer change: there the entry must be gone.
C19_NoDanglingHandle ==
    \A a \in Addrs : NotificationProcessed(a) => events[a] = 0

----------------------------------------------------------------------------
(* Claims about watch_contract *)

\* C20: watch_contract on a contract whose currentPhase() is Trade or later
\* fails with PhaseTooLate and has no effect: no watcher is spawned, the
\* handle map is unchanged and no job row is created. (A failed read of the
\* phase is the transport error, not this case.)
C20_PhaseTooLate ==
    [][\A h \in CallIds :
          /\ (/\ calls[h].pc = "phase" /\ calls'[h].pc # "phase"
              /\ calls'[h].result # "TransportError"
              /\ phase[calls[h].address] >= TradePhase)
                => /\ calls'[h].pc = "ret"
                   /\ calls'[h].result = "PhaseTooLate"
                   /\ watchers' = watchers
                   /\ events' = events
                   /\ jobs' = jobs
          /\ calls'[h].result = "PhaseTooLate" =>
                /\ watchers'[h].pc = "none"
                /\ events'[calls'[h].address] # h]_vars

\* a watch_contract call on a contract in Withdraw was refused, and there is
\* no job row
C20_Witness ==
    \E h \in CallIds :
        /\ calls[h].pc = "ret"
        /\ calls[h].result = "PhaseTooLate"
        /\ phase[calls[h].address] = TradePhase + 1
        /\ jobs = {}
        /\ watchers[h].pc = "none"

----------------------------------------------------------------------------
(* Claims about the prover client and the prover server *)

\* a request reaches a prove or prove_async endpoint in this step
RunArrives(r) == provers[r].pc = "none" /\ provers'[r].pc # "none"

\* C21: prove and prove_async check that currentPhase() is Trade before
\* anything else; when it is not they fail with PhaseMismatch, start no proof
\* computation and leave the jobs and proofs tables as they were.
C21_PhaseMismatch ==
    [][\A r \in RunIds :
          (RunArrives(r) /\ phase[provers'[r].address] # TradePhase) =>
              /\ provers'[r].pc = "returned"
              /\ provers'[r].result = "PhaseMismatch"
              /\ jobs' = jobs
              /\ proofs' = proofs]_vars

\* a run of prove_impl returns in this step
RunReturns(r) ==
    /\ provers[r].pc \in {"create_proof", "set_completed", "set_errored"}
    /\ provers'[r].pc = "returned"

\* C22: a proving run for an address with a job row ends in one of two ways:
\* the backend succeeded, the Proof row with the returned journal and seal is
\* stored and the job is Completed with completed_at set and no error text; or
\* the backend failed, the job is Errored with the error text and completed_at
\* set, and the run wrote no Proof row.
C22_TwoOutcomes ==
    [][\A r \in RunIds :
          (RunReturns(r) /\ get_job_by_address(jobs, provers[r].address).ok) =>
              LET a == provers[r].address
                  j == get_job_by_address(jobs', a).job[1]
              IN  \/ /\ provers[r].receipt # 0
                     /\ NewProof(a, provers[r].receipt) \in proofs'
                     /\ j.status = "completed"
                     /\ j.completed_at # None
                     /\ j.error = None
                  \/ /\ provers[r].receipt = 0
                     /\ proofs' = proofs
                     /\ j.status = "errored"
                     /\ j.completed_at # None
                     /\ j.error # None]_vars

----------------------------------------------------------------------------
(* Claims about the watcher task *)

\* the watcher w created the job row of its address and its call of
\* prover.prove then ended with an error that is not the phase check's: a
\* transport failure, the request_timeout, or an error response
ProveRequestFailed(w) ==
    /\ watchers[w].pc = "finished"
    /\ watchers[w].cursor = TradePhase
    /\ watchers[w].result \in {"TransportError", "ProveFailed"}

\* C23: when a watcher has created the job row and its prove request fails in
\* transport or by the request timeout, the job row becomes Errored with the
\* error text: once no run is left in flight for the address the row is
\* Errored, not Created.
C23_ProveFailureErrors ==
    \A w \in CallIds :
        (ProveRequestFailed(w) /\ RunsInFlight(watchers[w].address) = {}) =>
            \E j \in jobs : /\ j.address = watchers[w].address
                            /\ j.status = "errored"
                            /\ j.error # None

\* C24: the job row moves from Created to InProgress when the prover request
\* is issued: while a proving run for an address is in flight its job row is
\* InProgress.
C24_InProgressWhileProving ==
    \A a \in Addrs :
        (RunsInFlight(a) # {} /\ get_job_by_address(jobs, a).ok) =>
            get_job_by_address(jobs, a).job[1].status = "in_progress"

----------------------------------------------------------------------------
(* The job lifecycle under fair scheduling *)

\* the monitor and the prover server with the monitor as the server's only
\* client, as in run_test_case
LiveNext ==
    \/ \E a \in Addrs : AdvancePhase(a)
    \/ \E r \in RunIds : ProverBackend(r)
    \/ \E r \in RunIds : ProverCreateProof(r)
    \/ \E r \in RunIds : ProverSetCompleted(r)
    \/ \E r \in RunIds : ProverSetErrored(r)
    \/ \E h \in CallIds, a \in Addrs : WatchContract(h, a)
    \/ \E h \in CallIds : WatchReadPhase(h)
    \/ \E h \in CallIds : WatchReadBlock(h)
    \/ \E h \in CallIds : MonitorCheck(h)
    \/ \E h \in CallIds : MonitorInsert(h)
    \/ \E w \in CallIds : WatcherSubscribe(w)
    \/ \E w \in CallIds : WatcherOtherPhase(w)
    \/ \E w \in CallIds : WatcherTradePhase(w)
    \/ \E w \in CallIds : WatcherStreamError(w)
    \/ \E w \in CallIds : WatcherStreamEnd(w)
    \/ \E w \in CallIds : WatcherProve(w)
    \/ \E w \in CallIds : WatcherProveReturns(w)
    \/ \E w \in CallIds : WatcherProveTimeout(w)
    \/ ListenerRecv
    \/ CancelLock
    \/ CancelJoined
    \/ CancelTimeout

\* tokio runs every spawned task that is ready: a watcher task waiting on its
\* connection, on a delivered event or on the phase read, and a run of
\* prove_impl waiting on the backend or on the database, each take their step
TaskFairness ==
    /\ \A w \in CallIds : /\ WF_vars(WatcherSubscribe(w))
                          /\ WF_vars(WatcherOtherPhase(w))
                          /\ WF_vars(WatcherTradePhase(w))
                          /\ WF_vars(WatcherProve(w))
    /\ \A r \in RunIds : /\ WF_vars(ProverBackend(r))
                         /\ WF_vars(ProverCreateProof(r))
                         /\ WF_vars(ProverSetCompleted(r))

LiveSpec == Init /\ [][LiveNext]_vars /\ TaskFairness

\* the environment of address a behaves: connections and the subscription
\* hold, the subscription starts before PhaseChanged(Trade) and delivers it,
\* the escrow is still in Trade when the phase is read, and the backend
\* returns a proof
EnvOk(a) ==
    /\ \A w \in CallIds :
          watchers[w].address = a =>
              /\ watchers[w].result \notin
                     {"TransportError", "StreamError", "PhaseMismatch"}
              /\ ~(watchers[w].pc = "stream" /\ watchers[w].cursor >= TradePhase)
              /\ ~(/\ watchers[w].pc = "finished"
                   /\ watchers[w].result = "Ok"
                   /\ watchers[w].cursor < TradePhase)
    /\ \A r \in RunIds :
          provers[r].address = a => provers[r].pc # "set_errored"

\* a watch_contract call for a has returned Ok and the escrow has emitted
\* PhaseChanged(Trade)
WatchedTrade(a) ==
    /\ phase[a] >= TradePhase
    /\ \E h \in CallIds : /\ calls[h].pc = "ret"
                          /\ calls[h].result = "Ok"
                          /\ calls[h].address = a

\* get_proof_status answers Completed and get_proof the stored journal and seal
Served(a) ==
    /\ get_proof_status(a) = [ok |-> TRUE, status |-> "completed"]
    /\ get_proof(a).ok
    /\ \E r \in Receipts : /\ get_proof(a).journal = NewProof(a, r).proof
                           /\ get_proof(a).seal = NewProof(a, r).seal

----------------------------------------------------------------------------
(* Claims about retrying and about the watch loop *)

\* watcher tasks have been spawned for a, each of them has ended with an
\* error, and a has no job row
FailedBeforeJob(a) ==
    /\ ~get_job_by_address(jobs, a).ok
    /\ \E w \in CallIds : watchers[w].address = a
    /\ \A w \in CallIds :
          watchers[w].address = a =>
              watchers[w].pc = "finished" /\ watchers[w].result # "Ok"

\* C26: a watcher that failed before creating its job row is retriable: when
\* the watcher task of an address has ended with an error, no job row exists
\* and the escrow is still before Trade, a later watch_contract for the
\* address passes the presence check and spawns a new watcher.
C26_WatcherRetriable ==
    [][\A h \in CallIds :
          (/\ calls[h].pc = "check"
           /\ calls'[h].pc # "check"
           /\ FailedBeforeJob(calls[h].address)
           /\ phase[calls[h].address] < TradePhase) =>
              /\ calls'[h].pc = "insert"
              /\ watchers'[h].pc = "subscribe"]_vars

----------------------------------------------------------------------------
(* The guest run as a state machine *)

GuestInit ==
    /\ returns \in EscrowResults
    /\ preferences \in HostInputs
    /\ gpc = "start"
    /\ journal = None
    /\ SolverIdle
    /\ OrchInit
    /\ NotifierIdle

GuestNext ==
    \/ GuestReallocate
    \/ gpc = "solving" /\ New
    \/ gpc = "solving" /\ SolveIteration
    \/ gpc = "solving" /\ SolveReturn
    \/ GuestCommit

GuestSpec == GuestInit /\ [][GuestNext]_vars

\* the owner the escrow records for token t at the committed block
EscrowOwner(t) == build_owner_dict(returns)[t]

\* the allocation of the solver on the escrow's preferences (it does not
\* depend on the order of the keys: C5_AllocationInvariant)
EscrowAllocation ==
    GuestAllocation(returns, Ascending(DOMAIN PreferencesOf(returns))).allocation

\* C27: every reallocation (token, newOwner) of the committed journal pairs
\* the token the solver allocates to a participant token t with the owner the
\* escrow records for t at the committed block: the owners come from the
\* escrow's getAllTokenPreferences result and from no other input.
C27_OwnersFromEscrow ==
    gpc = "committed" =>
        \A i \in DOMAIN journal[1].reallocations :
            \E t \in DOMAIN EscrowAllocation :
                /\ journal[1].reallocations[i].tokenId = EscrowAllocation[t]
                /\ journal[1].reallocations[i].newOwner = EscrowOwner(t)

----------------------------------------------------------------------------
(* The notifier run as a state machine *)

NotifierInit == NotifierIdle /\ SolverIdle /\ OrchInit /\ GuestIdle

NotifierNext ==
    \/ \E payload \in Payloads : publish_notification(payload)
    \/ ListenerStreamError
    \/ Forward
    \/ SubscriberRecv

NotifierSpec == NotifierInit /\ [][NotifierNext]_vars

\* the integers whose text the payloads of s are, in order; a payload that
\* is the text of no integer contributes nothing
RECURSIVE WellFormedValues(_)
WellFormedValues(s) ==
    IF s = <<>> THEN <<>>
    ELSE LET ns == {n \in 0..(10 * MaxPayload) : to_string(n) = Head(s)}
         IN  (IF ns = {} THEN <<>> ELSE <<CHOOSE n \in ns : TRUE>>)
             \o WellFormedValues(Tail(s))

\* the payloads of the notifications waiting in the PgListener stream
RECURSIVE PendingPayloads(_)
PendingPayloads(items) ==
    IF items = <<>> THEN <<>>
    ELSE (IF Head(items).ok THEN <<Head(items).payload>> ELSE <<>>)
         \o PendingPayloads(Tail(items))

----------------------------------------------------------------------------
(* Claims about the watch loop *)

\* C29: a watcher writes to the store and calls the prover only on the first
\* PhaseChanged event with newPhase = 2. An event for another phase leaves
\* jobs and proofs unchanged and starts no prover request; the Trade event
\* creates the job row with that event's block number and block timestamp and
\* status Created; the watcher's prover request follows that event only;
\* after the event the watcher reads no further event, and when the prove
\* call has returned Ok it exits with Ok.
C29_FirstTradeEventOnly ==
    [][\A w \in CallIds :
          LET a == watchers[w].address
          IN  /\ (/\ watchers[w].pc = "stream"
                  /\ watchers'[w].pc = "stream"
                  /\ watchers'[w] # watchers[w]) =>
                     /\ watchers'[w].cursor = watchers[w].cursor + 1
                     /\ watchers'[w].cursor # TradePhase
                     /\ jobs' = jobs
                     /\ proofs' = proofs
                     /\ provers' = provers
              /\ (watchers[w].pc = "stream" /\ watchers'[w].pc = "assert_phase") =>
                     /\ watchers'[w].cursor = TradePhase
                     /\ \E j \in jobs' :
                           /\ jobs' = jobs \cup {j}
                           /\ j \notin jobs
                           /\ j.address = a
                           /\ j.block_number = tradeBlock[a]
                           /\ j.block_timestamp = BlockTimestamp(tradeBlock[a])
                           /\ j.status = "created"
                     /\ proofs' = proofs
                     /\ provers' = provers
              /\ (provers[w].pc = "none" /\ provers'[w].pc # "none") =>
                     /\ watchers[w].pc = "assert_phase"
                     /\ watchers[w].cursor = TradePhase
              /\ watchers[w].pc \in {"assert_phase", "prove_rpc", "finished",
                                     "aborted"} =>
                     /\ watchers'[w].pc # "stream"
                     /\ watchers'[w].cursor = watchers[w].cursor
              /\ (/\ watchers[w].pc = "prove_rpc"
                  /\ watchers'[w].pc = "finished"
                  /\ provers[w].pc = "returned"
                  /\ provers[w].result = "Ok") =>
                     watchers'[w].result = "Ok"]_vars

C29_Witness ==
    \E w \in CallIds :
        /\ watchers[w].pc = "finished"
        /\ watchers[w].result = "Ok"
        /\ watchers[w].cursor = TradePhase
        /\ watchers[w].from_block = 0
        /\ phase[watchers[w].address] > TradePhase
        /\ \E j \in jobs : /\ j.address = watchers[w].address
                           /\ j.block_number = tradeBlock[watchers[w].address]

\* C30: within a watcher the job row is committed before the prover is
\* invoked. A watcher reaches its prove call only by a step in which its own
\* create_job inserted the row of its address, and it starts a prover request
\* only from there, the row being present; a watcher whose create_job fails
\* changes no table, ends with that error and never starts a prover request.
C30_JobBeforeProve ==
    [][\A w \in CallIds :
          LET a == watchers[w].address
          IN  /\ (watchers[w].pc # "assert_phase" /\ watchers'[w].pc = "assert_phase") =>
                     /\ ~get_job_by_address(jobs, a).ok
                     /\ get_job_by_address(jobs', a).ok
              /\ (provers[w].pc = "none" /\ provers'[w].pc # "none") =>
                     /\ watchers[w].pc = "assert_phase"
                     /\ provers'[w].address = a
                     /\ get_job_by_address(jobs, a).ok
              /\ (/\ watchers[w].result # "CreateJobFailed"
                  /\ watchers'[w].result = "CreateJobFailed") =>
                     /\ get_job_by_address(jobs, a).ok
                     /\ jobs' = jobs
                     /\ watchers'[w].pc = "finished"
                     /\ provers' = provers
              /\ watchers[w].result = "CreateJobFailed" =>
                     /\ watchers'[w] = watchers[w]
                     /\ provers'[w].pc = "none"]_vars

C30_Witness ==
    \E w, v \in CallIds :
        /\ watchers[w].pc = "finished"
        /\ watchers[w].result = "CreateJobFailed"
        /\ provers[w].pc = "none"
        /\ watchers[v].address = watchers[w].address
        /\ provers[v].pc = "returned"
        /\ provers[v].client = "watcher"

----------------------------------------------------------------------------
(* Errors inside the watcher task *)

\* the error results a watcher task can end with
WatcherErrors ==
    {"TransportError", "StreamError", "CreateJobFailed", "PhaseMismatch",
     "ProveFailed"}

\* watcher w ends in this step with an error result
EndsWithError(w) ==
    /\ watchers[w].pc \in {"subscribe", "stream", "assert_phase", "prove_rpc"}
    /\ watchers'[w].pc = "finished"
    /\ watchers'[w].result \in WatcherErrors

\* C31: an error of the phase-change subscription ends the watcher task with
\* an error result; a step in which a watcher ends with an error (stream,
\* chain or database failure) leaves the jobs and proofs tables as they were;
\* and a finished task never runs again: nothing restarts it.
C31_WatcherErrorTerminates ==
    [][\A w \in CallIds :
          /\ WatcherStreamError(w) =>
                /\ watchers'[w].pc = "finished"
                /\ watchers'[w].result = "StreamError"
          /\ EndsWithError(w) => jobs' = jobs /\ proofs' = proofs
          /\ watchers[w].pc = "finished" => watchers'[w] = watchers[w]]_vars

\* a watcher that created the job row of its address and then ended with an
\* error, the row still as create_job wrote it
C31_Witness ==
    \E w \in CallIds :
        /\ watchers[w].pc = "finished"
        /\ watchers[w].result \in {"PhaseMismatch", "ProveFailed"}
        /\ \E j \in jobs : j.address = watchers[w].address /\ j.status = "created"

----------------------------------------------------------------------------
(* The lock of the handle map *)

\* the listener is inside cancel_monitoring, awaiting
\* timeout(Duration::from_secs(10), handle)
AwaitingHandle == listener.pc = "join"

\* C32: the lock of the handle map is never held across a wait: in no state
\* does a caller hold the lock while it waits for a watcher task to finish or
\* for the 10 second grace period.
C32_LockNotHeldAcrossWait == lock # "free" => ~AwaitingHandle

\* a step of the watcher task w itself (not its spawn, not its abort)
WatcherStep(w) ==
    /\ watchers[w].pc \in {"subscribe", "stream", "assert_phase", "prove_rpc"}
    /\ watchers'[w] # watchers[w]
    /\ watchers'[w].pc # "aborted"

\* C33: a watcher task neither takes the lock of the handle map nor changes
\* the map: every step of a watcher leaves both as they were, whether or not
\* the lock is held; the map changes only in events.insert of
\* monitor_trade_phase and events.remove of cancel_monitoring; and a cancel
\* that holds the lock while it awaits a handle is never waiting for the
\* lock's next holder: the awaited task is finished or can still be aborted.
C33_WatchersLeaveMapAlone ==
    [][/\ \A w \in CallIds : WatcherStep(w) => events' = events /\ lock' = lock
       /\ events' # events =>
             \/ \E h \in CallIds : calls[h].pc = "insert" /\ calls'[h].pc = "ret"
             \/ listener.pc = "cancel" /\ listener'.pc \in {"join", "recv"}
       /\ lock' # lock => listener' # listener
       /\ AwaitingHandle =>
             watchers[listener.handle].pc \in
                 {"subscribe", "stream", "assert_phase", "prove_rpc", "finished"}]_vars

\* a cancel holds the lock and awaits a watcher that has run to its end, while
\* a monitor_trade_phase call waits for the lock
C33_Witness ==
    /\ AwaitingHandle
    /\ lock = "cancel_monitoring"
    /\ watchers[listener.handle].pc = "finished"
    /\ \E h \in CallIds : calls[h].pc \in {"check", "insert"}

\* a step of cancel_monitoring: the remove under the lock, the join, the abort
CancelStep ==
    /\ listener.pc \in {"cancel", "join"}
    /\ listener' # listener

\* C34: cancel_monitoring changes only the handle map and the watcher task:
\* every step of it leaves the jobs and proofs tables, the escrow, the prover
\* runs and every other watcher as they were, so a row committed by the run of
\* the cancelled or aborted watcher stays as committed.
C34_CancelFrame ==
    [][CancelStep =>
          /\ jobs' = jobs
          /\ proofs' = proofs
          /\ UNCHANGED <<phase, tradeBlock, provers, calls, notified, notifQueue>>
          /\ \A w \in CallIds :
                watchers'[w] # watchers[w] =>
                    /\ w = listener.handle
                    /\ watchers'[w] = [watchers[w] EXCEPT !.pc = "aborted"]]_vars

\* a watcher aborted by cancel_monitoring after it had created the job row and
\* sent its prove request; the job row and the proof row of its run are there
C34_Witness ==
    \E w \in CallIds :
        /\ watchers[w].pc = "aborted"
        /\ provers[w].client = "watcher"
        /\ \E j \in jobs : j.address = watchers[w].address /\ j.status = "completed"
        /\ \E p \in proofs : p.address = watchers[w].address

----------------------------------------------------------------------------
(* Several contracts under one monitor *)

\* the contracts of the runs with more than one contract
FrameAddrs == 1..(NumAddrs + 1)

\* the orchestrator after construction, with the contracts FrameAddrs
FrameInit ==
    /\ phase = [a \in FrameAddrs |-> 0]
    /\ tradeBlock = [a \in FrameAddrs |-> 0]
    /\ jobs = {}
    /\ proofs = {}
    /\ notified = [a \in FrameAddrs |-> 0]
    /\ notifQueue = <<>>
    /\ events = [a \in FrameAddrs |-> 0]
    /\ lock = "free"
    /\ calls = [h \in CallIds |-> IdleCall]
    /\ watchers = [w \in CallIds |-> NoWatcher]
    /\ provers = [r \in RunIds |-> NoRun]
    /\ listener = [pc |-> "recv", address |-> 0, handle |-> 0]
    /\ SolverIdle
    /\ GuestIdle
    /\ NotifierIdle

\* the monitor and the prover server serving the contracts FrameAddrs, the
\* monitor being the server's only client
FrameNext ==
    \/ \E a \in FrameAddrs : AdvancePhase(a)
    \/ \E r \in RunIds : ProverBackend(r)
    \/ \E r \in RunIds : ProverCreateProof(r)
    \/ \E r \in RunIds : ProverSetCompleted(r)
    \/ \E r \in RunIds : ProverSetErrored(r)
    \/ \E h \in CallIds, a \in FrameAddrs : WatchContract(h, a)
    \/ \E h \in CallIds : WatchReadPhase(h)
    \/ \E h \in CallIds : WatchReadBlock(h)
    \/ \E h \in CallIds : MonitorCheck(h)
    \/ \E h \in CallIds : MonitorInsert(h)
    \/ \E w \in CallIds : WatcherSubscribe(w)
    \/ \E w \in CallIds : WatcherOtherPhase(w)
    \/ \E w \in CallIds : WatcherTradePhase(w)
    \/ \E w \in CallIds : WatcherStreamError(w)
    \/ \E w \in CallIds : WatcherStreamEnd(w)
    \/ \E w \in CallIds : WatcherProve(w)
    \/ \E w \in CallIds : WatcherProveReturns(w)
    \/ \E w \in CallIds : WatcherProveTimeout(w)
    \/ ListenerRecv
    \/ CancelLock
    \/ CancelJoined
    \/ CancelTimeout

FrameSpec == FrameInit /\ [][FrameNext]_vars

\* what the system holds for contract b: its job row, its proof row, its
\* entry of the handle map and its watcher tasks
AddrView(b) ==
    [job |-> {j \in jobs : j.address = b},
     proof |-> {p \in proofs : p.address = b},
     handle |-> events[b],
     tasks |-> {<<w, watchers[w]>> : w \in {v \in CallIds : watchers[v].address = b}}]

\* this step belongs to an operation on contract b: a watch_contract call, a
\* watcher task, a run of the prover server or the listener's cancel for b
\* moves, or the escrow b changes phase
Acting(b) ==
    \/ phase'[b] # phase[b]
    \/ \E h \in CallIds : calls'[h] # calls[h] /\ calls'[h].address = b
    \/ \E w \in CallIds : watchers'[w] # watchers[w] /\ watchers'[w].address = b
    \/ \E r \in RunIds : provers'[r] # provers[r] /\ provers'[r].address = b
    \/ listener' # listener /\ b \in {listener.address, listener'.address}

\* C35: operations on one contract are independent of every other contract:
\* every step is a step of an operation on one contract only, and the job
\* row, proof row, handle-map entry and watcher tasks of a contract change
\* only in steps of operations on that contract.
C35_AddressFrame ==
    [][/\ \A a, b \in FrameAddrs : (Acting(a) /\ Acting(b)) => a = b
       /\ \A b \in FrameAddrs : AddrView(b)' # AddrView(b) => Acting(b)]_vars

\* two contracts served side by side: the job of one is completed and proved
\* and its handle removed, the other still has its watcher and no job row
C35_Witness ==
    \E a, b \in FrameAddrs :
        /\ a # b
        /\ \E j \in jobs : j.address = a /\ j.status = "completed"
        /\ \E p \in proofs : p.address = a
        /\ events[a] = 0
        /\ events[b] # 0
        /\ watchers[events[b]].pc = "stream"
        /\ \A j \in jobs : j.address # b

----------------------------------------------------------------------------
(* Entries behind a participant's own token *)

\* list l of participant k without the entries that follow k's own name
CutAfterSelf(l, k) == IF Contains(l, k) THEN SubSeq(l, 1, Position(l, k)) ELSE l

\* the mappings obtained from P by cutting, in the lists of the participants
\* of some set K, the entries behind the owner's own name
CutVariants(P) ==
    {[k \in DOMAIN P |-> IF k \in K THEN CutAfterSelf(P[k], k) ELSE P[k]] :
        K \in SUBSET DOMAIN P}

\* C36: entries that follow a participant's own token in its list never
\* influence the outcome: for a valid mapping P and every P' obtained from P
\* by deleting, in any of the lists, the entries behind the owner's own token,
\* the solver succeeds on P' and yields the allocation it yields on P.
C36_TailAfterSelfIrrelevant ==
    (SolverDone /\ ValidInput(input)) =>
        \A Q \in CutVariants(input) :
            LET other == solve_preferences(PreferenceGraphNew(keyOrder, Q), Q, <<>>)
            IN  /\ other.status = "ok"
                /\ AllocationFrom(other.cycles) = allocation

\* a finished run on a mapping in which one participant ranks tokens behind
\* its own and trades, and another ranks tokens behind its own and keeps it
C36_Witness ==
    /\ SolverDone
    /\ ValidInput(input)
    /\ \E k \in Participants :
          /\ CutAfterSelf(input[k], k) # input[k]
          /\ Position(input[k], k) > 1
          /\ allocation[k] # k
    /\ \E k \in Participants :
          /\ CutAfterSelf(input[k], k) # input[k]
          /\ allocation[k] = k

----------------------------------------------------------------------------
(* Equality of cycles *)

\* the values of Cycle: closed loops of length 1 and more; find_cycle, the
\* only constructor outside the tests, returns no empty one
CycleValues == SeqsUpTo(Names, MaxParticipants) \ {<<>>}

CycleInit ==
    /\ \E x, y, z \in CycleValues :
          cmp = [NoComparison EXCEPT !.pc = "start", !.a = x, !.b = y, !.c = z]
    /\ input = <<>>
    /\ keyOrder = <<>>
    /\ spc = "start"
    /\ serr = "none"
    /\ graph = GraphNew
    /\ prefs = <<>>
    /\ res = <<>>
    /\ iters = 0
    /\ allocation = <<>>
    /\ OrchInit
    /\ GuestIdle
    /\ NotifierIdle

CycleSpec == CycleInit /\ [][CompareCycles]_vars

\* s read from its entry k + 1 on, wrapping around
Rotation(s, k) == SubSeq(s, k + 1, Len(s)) \o SubSeq(s, 1, k)

\* C37: equality of cycles is equality up to rotation: a == b exactly when a
\* and b have the same length and b is a rotation of a; a cycle of three or
\* more distinct vertices is not equal to its reversal; and == is reflexive,
\* symmetric and transitive.
C37_EqualUpToRotation ==
    cmp.pc = "done" =>
        /\ cmp.ab <=> /\ Len(cmp.a) = Len(cmp.b)
                      /\ \E k \in 0..(Len(cmp.a) - 1) : cmp.b = Rotation(cmp.a, k)
        /\ (Len(cmp.a) >= 3 /\ IsDistinctSeq(cmp.a)) => ~cmp.arev
        /\ cmp.aa
        /\ cmp.ab <=> cmp.ba
        /\ (cmp.ab /\ cmp.bc) => cmp.ac

\* three different writings of one cycle of three vertices, compared
C37_Witness ==
    /\ cmp.pc = "done"
    /\ Len(cmp.a) = 3
    /\ IsDistinctSeq(cmp.a)
    /\ cmp.a # cmp.b /\ cmp.b # cmp.c /\ cmp.a # cmp.c
    /\ cmp.ab /\ cmp.bc /\ cmp.ac
    /\ ~cmp.arev

----------------------------------------------------------------------------
(* The loop of solve_preferences *)

\* the participants removed in earlier iterations
Removed == Participants \ DOMAIN prefs

\* C38: at the start of every iteration of solve_preferences the vertices of
\* the graph are the keys of the remaining preferences, each once; no
\* remaining list names a participant removed in an earlier iteration; and
\* every vertex has exactly one outgoing edge, to the first entry of its
\* reduced list, or to itself when that list is empty.
C38_LoopInvariant ==
    spc = "loop" =>
        /\ IsDistinctSeq(graph.nodes)
        /\ Range(graph.nodes) = DOMAIN prefs
        /\ \A k \in DOMAIN prefs : Range(prefs[k]) \cap Removed = {}
        /\ \A i \in 1..node_count(graph) :
              LET v == graph.nodes[i]
                  top == IF prefs[v] = <<>> THEN v ELSE prefs[v][1]
              IN  OutNeighbors(graph, i) = <<IndexOf(graph, top)>>

\* the start of a later iteration: a cycle of two has been removed, and a
\* surviving participant whose first choice went with it points to the next
\* entry of its list
C38_Witness ==
    /\ spc = "loop"
    /\ iters >= 1
    /\ \E i \in DOMAIN res : Len(res[i]) >= 2
    /\ \E v \in DOMAIN prefs :
          /\ input[v] # <<>>
          /\ input[v][1] \in Removed
          /\ prefs[v] # <<>>
          /\ prefs[v][1] # v

----------------------------------------------------------------------------
(* The allocation as a bijection *)

\* the reallocation reallocate builds from the allocation when every token
\* was deposited by the owner of the same number, the HashMap iterated in
\* the order iter
ProjectedReallocation(iter) ==
    reallocate([t \in DOMAIN allocation |-> t], allocation, iter)

\* C39: the allocation Allocation::from builds from the solver's cycles is a
\* bijection on the participants: every participant is a key, every
\* participant is the value of exactly one key, and in the reallocation
\* projected from it every token occurs in exactly one entry, whatever the
\* order in which the map is iterated.
C39_AllocationBijection ==
    SolverDone =>
        /\ DOMAIN allocation = Participants
        /\ \A t \in Participants :
              Cardinality({k \in Participants : allocation[k] = t}) = 1
        /\ \A iter \in Perms(DOMAIN allocation) :
              LET r == ProjectedReallocation(iter)
              IN  /\ Len(r) = Cardinality(Participants)
                  /\ \A t \in Participants :
                        Cardinality({i \in DOMAIN r : r[i].tokenId = t}) = 1
                  /\ \A i \in DOMAIN r : allocation[r[i].newOwner] = r[i].tokenId

\* a finished run with a cycle of three and the allocation it gives
C39_Witness ==
    /\ SolverDone
    /\ \E i \in DOMAIN res : Len(res[i]) = 3
    /\ \A k \in Participants : allocation[k] # k

----------------------------------------------------------------------------
(* The columns of a job row *)

\* C40: every job row satisfies: completed_at is set if and only if the
\* status is Completed or Errored, and the error text is set if and only if
\* the status is Errored.
C40_JobColumnsMatchStatus ==
    \A j \in jobs :
        /\ j.completed_at # None <=> j.status \in {"completed", "errored"}
        /\ j.error # None <=> j.status = "errored"

\* a row written by the failure path of prove_impl after the success path
\* had stored the proof of the address
C40_Witness ==
    \E j \in jobs :
        /\ j.status = "errored"
        /\ j.error # None
        /\ j.completed_at # None
        /\ \E p \in proofs : p.address = j.address

====
